---- MODULE Spec2Model ----
(***************************************************************************)
(* Event versioning and permission core of neo-event-system.               *)
(*                                                                         *)
(* The persistent store (PostgreSQL behind SQLAlchemy) is the committed    *)
(* state: the tables events, event_versions and event_permissions and the  *)
(* two id sequences.  Every request handler runs in its own session; a     *)
(* handler that awaits between its permission gate and its write is two    *)
(* steps (gate, exec), so that other requests may commit in between.  The  *)
(* write step of a handler is one transaction: it validates the            *)
(* constraints of the schema (NOT NULL, UNIQUE, FOREIGN KEY) against the   *)
(* committed state and commits everything or nothing.                      *)
(*                                                                         *)
(* A handler is an operator from the committed state, the objects the      *)
(* request loaded and the request's inputs to the new committed state and  *)
(* the response; the action of the handler applies it.  The gate of a      *)
(* handler does not read the request body, so the body is drawn in the     *)
(* exec step, where the code first reads it.                               *)
(*                                                                         *)
(* Spec runs the requests one after the other (each handler is one step);  *)
(* SpecConcurrent interleaves the update and rollback requests.            *)
(***************************************************************************)
EXTENDS Integers, FiniteSets, Sequences, Bags, TLC

\* ------------------------------------------------------------------ bounds
MaxEvents == 2
MaxVersions == 3
NumUsers == 2
NumRequests == 2
MaxSkip == 1
MaxLimit == 2

Users == 1 .. NumUsers
EventIds == 1 .. MaxEvents
VersionIds == 1 .. MaxVersions

\* ------------------------------------------------------------------ values
None == "<None>"

RoleEnum == {"owner", "editor", "viewer"}

ContentFields ==
    {"title", "description", "start_time", "end_time", "location",
     "is_recurring", "recurrence_pattern"}

\* Python truthiness of an Optional[str]: None and "" are falsy.
Falsy(v) == v = None \/ v = ""

NoVersion == [id |-> 0]
NoEvent == [id |-> 0]

HTTP_200 == 200
HTTP_201 == 201
HTTP_204 == 204
HTTP_400 == 400
HTTP_403 == 403
HTTP_404 == 404
HTTP_500 == 500

\* ------------------------------------------------------------------ state
VARIABLES
    events,         \* table events: records [id, owner_id, current_version_id]
    versions,       \* table event_versions: one record per row
    perms,          \* table event_permissions: records [event_id, user_id, role]
    nextEventId,    \* sequence of events.id
    nextVersionId,  \* sequence of event_versions.id
    inflight        \* bag of the requests that passed their gate and await their
                    \* write: each with its handler, caller and loaded objects

vars == <<events, versions, perms, nextEventId, nextVersionId, inflight>>

DB == [events |-> events, versions |-> versions, perms |-> perms,
       nextEventId |-> nextEventId, nextVersionId |-> nextVersionId]

\* ------------------------------------------------------------------ reads
\* select(Event).where(Event.id == event_id), with current_version joined
get_event_with_details_by_id(db, event_id) ==
    IF \E e \in db.events : e.id = event_id
    THEN LET e == CHOOSE x \in db.events : x.id = event_id
             cv == {v \in db.versions : v.id = e.current_version_id}
         IN [id |-> e.id, owner_id |-> e.owner_id,
             current_version_id |-> e.current_version_id,
             current_version |-> IF cv = {} THEN NoVersion
                                 ELSE CHOOSE v \in cv : TRUE]
    ELSE NoEvent

get_permission_by_event_and_user(db, event_id, user_id) ==
    {p \in db.perms : p.event_id = event_id /\ p.user_id = user_id}

\* A lookup of a version by its id alone, whatever event it belongs to.
get_event_version_by_version_id_any_event(db, event_id, version_id) ==
    LET vs == {v \in db.versions : v.id = version_id}
    IN IF vs = {} THEN NoVersion ELSE CHOOSE v \in vs : TRUE

\* select(EventVersion).where(id == version_id, event_id == event_id)
get_event_version_by_version_id(db, event_id, version_id) ==
    LET vs == {v \in db.versions : v.id = version_id /\ v.event_id = event_id}
    IN IF vs = {} THEN NoVersion ELSE CHOOSE v \in vs : TRUE

\* The gate every handler starts with: existence first, then the caller's role.
\* 0 means the gate passed.
\* A gate that looks for the permission first and for the event after it.
CheckPermission_permission_first(db, event_id, user_id, allowed_roles) ==
    IF \A p \in get_permission_by_event_and_user(db, event_id, user_id) :
           p.role \notin allowed_roles
    THEN HTTP_403
    ELSE IF get_event_with_details_by_id(db, event_id) = NoEvent THEN HTTP_404
    ELSE 0

CheckPermission(db, event_id, user_id, allowed_roles) ==
    IF get_event_with_details_by_id(db, event_id) = NoEvent THEN HTTP_404
    ELSE IF \A p \in get_permission_by_event_and_user(db, event_id, user_id) :
                p.role \notin allowed_roles
         THEN HTTP_403
         ELSE 0

\* ------------------------------------------------------------------ schemas
\* A copy of the content fields that forgets the location.
Content_without_location(v) ==
    [f \in ContentFields |-> IF f = "location" THEN None ELSE v[f]]

\* The seven content fields of a version row.
Content(v) == [f \in ContentFields |-> v[f]]

Get(payload, f, default) == IF f \in DOMAIN payload THEN payload[f] ELSE default

\* EventRecurrence.validate_recurrence_pattern: a field validator, run only
\* for a recurrence_pattern the payload supplies (a default is not validated).
validate_recurrence_pattern(payload) ==
    "recurrence_pattern" \in DOMAIN payload =>
        LET v == payload["recurrence_pattern"]
            is_recurring == Get(payload, "is_recurring", FALSE)
        IN /\ ~(is_recurring /\ Falsy(v))
           /\ ~(~is_recurring /\ v # None)

\* EventVersionBase.validate_end_time_after_start_time
validate_end_time_after_start_time(payload) ==
    ~(payload["end_time"] <= payload["start_time"])

\* EventCreate: the request body is accepted iff the required fields are there
\* and every validator passes.
EventCreateAccepts(payload) ==
    /\ {"title", "start_time", "end_time"} \subseteq DOMAIN payload
    /\ payload["title"] # ""
    /\ validate_recurrence_pattern(payload)
    /\ validate_end_time_after_start_time(payload)

\* The validated EventCreate object: omitted fields take their defaults.
EventCreate(payload) ==
    [title |-> payload["title"],
     description |-> Get(payload, "description", None),
     start_time |-> payload["start_time"],
     end_time |-> payload["end_time"],
     location |-> Get(payload, "location", None),
     is_recurring |-> Get(payload, "is_recurring", FALSE),
     recurrence_pattern |-> Get(payload, "recurrence_pattern", None)]

\* EventUpdate.validate_recurrence_pattern_update
validate_recurrence_pattern_update(payload) ==
    "recurrence_pattern" \in DOMAIN payload =>
        LET v == payload["recurrence_pattern"]
        IN /\ ~("is_recurring" \in DOMAIN payload /\ payload["is_recurring"] /\ Falsy(v))
           /\ ~("is_recurring" \in DOMAIN payload /\ ~payload["is_recurring"] /\ v # None)

\* EventUpdate.validate_end_time_after_start_time_update
validate_end_time_after_start_time_update(payload) ==
    ("end_time" \in DOMAIN payload /\ "start_time" \in DOMAIN payload) =>
        ~(payload["end_time"] <= payload["start_time"])

EventUpdateAccepts(payload) ==
    /\ ("title" \in DOMAIN payload => payload["title"] # "")
    /\ validate_recurrence_pattern_update(payload)
    /\ validate_end_time_after_start_time_update(payload)

\* ------------------------------------------------------------------ session
\* Outcome of the storage layer for one transaction: it works, or the flush or
\* the commit raises (connection lost, statement timeout, ...).
StorageOutcomes == {"ok", "raises"}

\* await db.commit(): the transaction's rows become the committed state.
Commit(db, txn) == txn

\* A session whose rollback keeps what was flushed.
Rollback_keeps(db, txn) == txn

\* await db.rollback(): the committed state is what it was before.
Rollback(db, txn) == db

NewVersion(id, event_id, version_number, user_id, content) ==
    [id |-> id, event_id |-> event_id, version_number |-> version_number,
     changed_by_user_id |-> user_id,
     title |-> content["title"], description |-> content["description"],
     start_time |-> content["start_time"], end_time |-> content["end_time"],
     location |-> content["location"], is_recurring |-> content["is_recurring"],
     recurrence_pattern |-> content["recurrence_pattern"]]

\* event_versions without uq_event_version_number: only the foreign key.
VersionInsertAllowed_fk_only(db, v) ==
    \E e \in db.events : e.id = v.event_id

\* A table event_versions without its foreign key to events.
VersionInsertAllowed_no_fk(db, v) ==
    \A w \in db.versions :
        ~(w.event_id = v.event_id /\ w.version_number = v.version_number)

\* What the database checks when a row of event_versions is inserted:
\* the foreign key to events and uq_event_version_number.
VersionInsertAllowed(db, v) ==
    /\ \E e \in db.events : e.id = v.event_id
    /\ \A w \in db.versions :
          ~(w.event_id = v.event_id /\ w.version_number = v.version_number)

\* A table event_permissions without uq_event_user_permission.
PermissionInsertAllowed_no_unique(db, p) ==
    /\ \E e \in db.events : e.id = p.event_id
    /\ p.user_id \in Users

\* What the database checks when a row of event_permissions is inserted:
\* the foreign keys to events and users and uq_event_user_permission.
PermissionInsertAllowed(db, p) ==
    /\ \E e \in db.events : e.id = p.event_id
    /\ p.user_id \in Users
    /\ \A q \in db.perms : ~(q.event_id = p.event_id /\ q.user_id = p.user_id)

\* An UPDATE of events.current_version_id without its WHERE clause.
SetCurrentVersion_everywhere(evs, event_id, version_id) ==
    {[e EXCEPT !.current_version_id = version_id] : e \in evs}

\* A transaction that never sets events.current_version_id.
SetCurrentVersion_skipped(evs, event_id, version_id) == evs

\* "db_event.current_version_id = db_event_version.id"
SetCurrentVersion(evs, event_id, version_id) ==
    {IF e.id = event_id THEN [e EXCEPT !.current_version_id = version_id] ELSE e
       : e \in evs}

\* ------------------------------------------------------------------ crud_event
\* CRUDEvent.create_event_with_version.  Returns the store and whether the
\* call returned ("ok") or raised ("error").
create_event_with_version(db, event_data, owner_id, storage) ==
    LET event_id == db.nextEventId
        version_id == db.nextVersionId
        db_event == [id |-> event_id, owner_id |-> owner_id, current_version_id |-> 0]
        db_event_version == NewVersion(version_id, event_id, 1, owner_id, event_data)
        flushed == [db EXCEPT !.events = @ \cup {db_event},
                              !.versions = @ \cup {db_event_version},
                              !.nextEventId = @ + 1,
                              !.nextVersionId = @ + 1]
        pointed == [flushed EXCEPT
                       !.events = SetCurrentVersion(@, event_id, version_id)]
        owner_permission == [event_id |-> event_id, user_id |-> owner_id, role |-> "owner"]
        added == [pointed EXCEPT !.perms = @ \cup {owner_permission}]
    IN IF storage = "raises"
       THEN [db |-> Rollback(db, added), raised |-> "error", event_id |-> 0]
       ELSE [db |-> Commit(db, added), raised |-> "none", event_id |-> event_id]

\* A merge that carries the current content over and drops the payload.
MergedContent_current(current_data, update_data_dict) ==
    [f \in ContentFields |-> current_data[f]]

\* The merge of CRUDEvent.update_event_with_version: the current content,
\* overridden by the fields the payload sets.
MergedContent(current_data, update_data_dict) ==
    [f \in ContentFields |->
        IF f \in DOMAIN update_data_dict THEN update_data_dict[f] ELSE current_data[f]]

\* A comparison that takes every supplied field for a change.
HasChanges_always(current_data, update_data_dict) == TRUE

\* The has_changes loop: some supplied field differs from the current one.
HasChanges(current_data, update_data_dict) ==
    \E f \in DOMAIN update_data_dict :
        f \in ContentFields /\ current_data[f] # update_data_dict[f]

\* "Validations on the final new_version_data"
MergedContentValid(new_version_data) ==
    /\ ~(new_version_data["is_recurring"] /\ Falsy(new_version_data["recurrence_pattern"]))
    /\ ~(~new_version_data["is_recurring"] /\ new_version_data["recurrence_pattern"] # None)
    /\ ~(new_version_data["end_time"] <= new_version_data["start_time"])

\* A numbering that skips a number.
NextVersionNumber_skips(current_data) == current_data.version_number + 2

\* "version_number=current_data.version_number + 1"
NextVersionNumber(current_data) == current_data.version_number + 1

\* A write that keeps only the newest version row of the event.
AppendVersion_overwrites(db, new_db_version, storage) ==
    LET flushed == [db EXCEPT
                      !.versions = {v \in @ : v.event_id # new_db_version.event_id}
                                      \cup {new_db_version},
                      !.nextVersionId = @ + 1]
        pointed == [flushed EXCEPT
                       !.events = SetCurrentVersion(@, new_db_version.event_id,
                                                    new_db_version.id)]
    IN IF storage = "raises" \/ ~VersionInsertAllowed(db, new_db_version)
       THEN [db |-> Rollback(db, pointed), raised |-> "error"]
       ELSE [db |-> Commit(db, pointed), raised |-> "none"]

\* Insert a new version of the event and repoint the event to it, in one
\* transaction (flush, pointer update, commit; rollback on any exception).
AppendVersion(db, new_db_version, storage) ==
    LET flushed == [db EXCEPT !.versions = @ \cup {new_db_version},
                              !.nextVersionId = @ + 1]
        pointed == [flushed EXCEPT
                       !.events = SetCurrentVersion(@, new_db_version.event_id,
                                                    new_db_version.id)]
    IN IF storage = "raises" \/ ~VersionInsertAllowed(db, new_db_version)
       THEN [db |-> Rollback(db, pointed), raised |-> "error"]
       ELSE [db |-> Commit(db, pointed), raised |-> "none"]

\* CRUDEvent.update_event_with_version.  raised: "none", "ValueError" or
\* "error"; event: the event the call returns.
update_event_with_version(db, event_to_update, updates, user_id, storage) ==
    LET current_data == event_to_update.current_version
        new_version_data == MergedContent(current_data, updates)
        new_db_version ==
            NewVersion(db.nextVersionId, event_to_update.id,
                       NextVersionNumber(current_data), user_id, new_version_data)
        written == AppendVersion(db, new_db_version, storage)
    IN IF current_data = NoVersion
       THEN [db |-> db, raised |-> "ValueError", event |-> NoEvent]
       ELSE IF DOMAIN updates = {}
       THEN [db |-> db, raised |-> "none", event |-> event_to_update]
       ELSE IF ~HasChanges(current_data, updates)
       THEN [db |-> db, raised |-> "none", event |-> event_to_update]
       ELSE IF ~MergedContentValid(new_version_data)
       THEN [db |-> db, raised |-> "ValueError", event |-> NoEvent]
       ELSE [db |-> written.db, raised |-> written.raised,
             event |-> IF written.raised = "none"
                       THEN get_event_with_details_by_id(written.db, event_to_update.id)
                       ELSE NoEvent]

\* CRUDEvent.rollback_event_to_version
rollback_event_to_version(db, event_to_rollback, target_version_obj, user_id, storage) ==
    LET rolled_back_version ==
            NewVersion(db.nextVersionId, event_to_rollback.id,
                       NextVersionNumber(event_to_rollback.current_version), user_id,
                       Content(target_version_obj))
        written == AppendVersion(db, rolled_back_version, storage)
    IN IF event_to_rollback.current_version = NoVersion
       THEN [db |-> db, raised |-> "ValueError", event |-> NoEvent]
       ELSE IF target_version_obj.event_id # event_to_rollback.id
       THEN [db |-> db, raised |-> "ValueError", event |-> NoEvent]
       ELSE [db |-> written.db, raised |-> written.raised,
             event |-> IF written.raised = "none"
                       THEN get_event_with_details_by_id(written.db, event_to_rollback.id)
                       ELSE NoEvent]

\* A delete whose foreign keys do not cascade to the permissions.
delete_event_by_id_no_cascade(db, event_id, storage) ==
    LET deleted == [db EXCEPT
                      !.events = {e \in @ : e.id # event_id},
                      !.versions = {v \in @ : v.event_id # event_id}]
        rowcount == Cardinality({e \in db.events : e.id = event_id})
    IN IF storage = "ok"
       THEN [db |-> Commit(db, deleted), raised |-> "none", deleted |-> rowcount > 0]
       ELSE [db |-> Rollback(db, deleted), raised |-> "error", deleted |-> FALSE]

\* CRUDEvent.delete_event_by_id: the rows of the event's versions and
\* permissions go with it (ON DELETE CASCADE).
delete_event_by_id(db, event_id, storage) ==
    LET deleted == [db EXCEPT
                      !.events = {e \in @ : e.id # event_id},
                      !.versions = {v \in @ : v.event_id # event_id},
                      !.perms = {p \in @ : p.event_id # event_id}]
        rowcount == Cardinality({e \in db.events : e.id = event_id})
    IN IF storage = "ok"
       THEN [db |-> Commit(db, deleted), raised |-> "none", deleted |-> rowcount > 0]
       ELSE [db |-> Rollback(db, deleted), raised |-> "error", deleted |-> FALSE]

\* ------------------------------------------------------------------ listing
\* Datetimes are hours since 2024-01-01T00:00Z, a Monday; NoTime is the None
\* of an Optional[datetime].
NoTime == 0 - 1

Weekday(t) == (t \div 24) % 7

\* The recurrence rules dateutil parses, among the patterns of the model.
Daily == "FREQ=DAILY"
WeeklyMWF == "FREQ=WEEKLY;BYDAY=MO,WE,FR;UNTIL=20240131T235959Z"
Until == 31 * 24 - 1

\* A recurrence pattern that is no rule.
MalformedPattern == "every now and then"

\* A parser that takes every pattern for a rule.
rrulestr_parses_anything(pattern) == TRUE

\* rrule.rrulestr(pattern, dtstart=dtstart) returns a rule; for any other
\* pattern it raises.
rrulestr_parses(pattern) == pattern \in {Daily, WeeklyMWF}

\* A rule that ignores BYDAY: an occurrence every day until UNTIL.
IsOccurrence_no_byday(pattern, dtstart, t) ==
    /\ t >= dtstart
    /\ (t - dtstart) % 24 = 0
    /\ pattern = WeeklyMWF => t <= Until

\* t is the start of an occurrence of the rule anchored at dtstart.
IsOccurrence(pattern, dtstart, t) ==
    /\ t >= dtstart
    /\ (t - dtstart) % 24 = 0
    /\ pattern = WeeklyMWF => Weekday(t) \in {0, 2, 4} /\ t <= Until

\* rule.between(after, before, inc=True): the occurrence starts in [after, before].
between(pattern, dtstart, after, before) ==
    {t \in after .. before : IsOccurrence(pattern, dtstart, t)}

\* The end of the rule's iterator: there is no further occurrence.
StopIteration == 0 - 2

\* An iterator that yields the same occurrence again.
NextOccurrence_stuck(pattern, dtstart, t) == t

\* The occurrence the rule's iterator yields after t (after dtstart - 1: the
\* first one), or StopIteration.  Successive occurrences of the rules of the
\* model are at most a week apart.
NextOccurrence(pattern, dtstart, t) ==
    LET later == {u \in (t + 1) .. (t + 7 * 24) : IsOccurrence(pattern, dtstart, u)}
    IN IF later = {} THEN StopIteration
       ELSE CHOOSE u \in later : \A x \in later : u <= x

\* A set of datetimes as the ascending list rrule returns.
RECURSIVE Ascending(_)
Ascending(S) ==
    IF S = {} THEN << >>
    ELSE LET first == CHOOSE x \in S : \A y \in S : x <= y
         IN <<first>> \o Ascending(S \ {first})

\* An expansion that keeps every occurrence rule.between returns.
ExpandedInstance_unfiltered(occurrence_start, occurrence_end, filter_start_time, filter_end_time) ==
    TRUE

\* "if occurrence_start < filter_end_time and occurrence_end > filter_start_time"
ExpandedInstance(occurrence_start, occurrence_end, filter_start_time, filter_end_time) ==
    occurrence_start < filter_end_time /\ occurrence_end > filter_start_time

\* An expansion whose test of a non-recurring event takes the window as closed.
_expand_recurring_event_closed(event_version_data, filter_start_time, filter_end_time) ==
    LET ev_start_dt == event_version_data["start_time"]
        ev_end_dt == event_version_data["end_time"]
        instance(occurrence_start, occurrence_end) ==
            [title |-> event_version_data["title"],
             instance_start_time |-> occurrence_start,
             instance_end_time |-> occurrence_end,
             location |-> event_version_data["location"]]
        event_duration == ev_end_dt - ev_start_dt
        starts == Ascending(
            {t \in between(event_version_data["recurrence_pattern"], ev_start_dt,
                           filter_start_time, filter_end_time) :
                ExpandedInstance(t, t + event_duration, filter_start_time,
                                 filter_end_time)})
    IN IF \/ ~event_version_data["is_recurring"]
          \/ Falsy(event_version_data["recurrence_pattern"])
       THEN IF ev_start_dt <= filter_end_time /\ ev_end_dt >= filter_start_time
            THEN <<instance(ev_start_dt, ev_end_dt)>>
            ELSE << >>
       ELSE IF ~rrulestr_parses(event_version_data["recurrence_pattern"])
       THEN << >>
       ELSE [i \in 1 .. Len(starts) |-> instance(starts[i], starts[i] + event_duration)]

\* CRUDEvent._expand_recurring_event: the instances of one version in the
\* window, as a list.  An exception of the rule's parsing is caught and leaves
\* the list empty.
_expand_recurring_event(event_version_data, filter_start_time, filter_end_time) ==
    LET ev_start_dt == event_version_data["start_time"]
        ev_end_dt == event_version_data["end_time"]
        instance(occurrence_start, occurrence_end) ==
            [title |-> event_version_data["title"],
             instance_start_time |-> occurrence_start,
             instance_end_time |-> occurrence_end,
             location |-> event_version_data["location"]]
        event_duration == ev_end_dt - ev_start_dt
        starts == Ascending(
            {t \in between(event_version_data["recurrence_pattern"], ev_start_dt,
                           filter_start_time, filter_end_time) :
                ExpandedInstance(t, t + event_duration, filter_start_time,
                                 filter_end_time)})
    IN IF \/ ~event_version_data["is_recurring"]
          \/ Falsy(event_version_data["recurrence_pattern"])
       THEN IF ev_start_dt < filter_end_time /\ ev_end_dt > filter_start_time
            THEN <<instance(ev_start_dt, ev_end_dt)>>
            ELSE << >>
       ELSE IF ~rrulestr_parses(event_version_data["recurrence_pattern"])
       THEN << >>
       ELSE [i \in 1 .. Len(starts) |-> instance(starts[i], starts[i] + event_duration)]

\* A query that joins the events with their owner instead of their permissions.
BaseQuery_owned(db, user_id) ==
    {e.id : e \in {x \in db.events : x.owner_id = user_id}}

\* base_query of get_events_for_user: the ids of the events the user has a
\* permission row on, joined with their current version.
BaseQuery(db, user_id) ==
    {e.id : e \in {x \in db.events :
                     /\ \E p \in db.perms : p.event_id = x.id /\ p.user_id = user_id
                     /\ \E v \in db.versions : v.id = x.current_version_id}}

\* candidate_query: the recurring events and the others near the window.
CandidateQuery(db, user_id, filter_start_time, filter_end_time) ==
    {id \in BaseQuery(db, user_id) :
        LET v == get_event_with_details_by_id(db, id).current_version IN
        \/ v.is_recurring
        \/ ~v.is_recurring /\ v.end_time >= filter_start_time
                           /\ v.start_time <= filter_end_time}

\* The orders in which a query without ORDER BY may return its rows.
RowOrders(ids) ==
    {order \in [1 .. Cardinality(ids) -> ids] :
        \A i, j \in 1 .. Cardinality(ids) : order[i] = order[j] => i = j}

\* list.sort(key=...) is stable: an item goes behind the items whose key is
\* not greater than its own.
RECURSIVE StableSort(_, _)
StableSort(items, key) ==
    IF items = << >> THEN << >>
    ELSE LET last == items[Len(items)]
             front == StableSort(SubSeq(items, 1, Len(items) - 1), key)
             before == SelectSeq(front, LAMBDA x : x[key] <= last[key])
             after == SelectSeq(front, LAMBDA x : x[key] > last[key])
         IN before \o <<last>> \o after

\* "all_instances[skip : skip + limit]"
Slice(items, skip, limit) ==
    SubSeq(items, skip + 1, IF skip + limit < Len(items) THEN skip + limit ELSE Len(items))

\* The loop of get_events_for_user over the candidate rows in the order the
\* query returned them.
RECURSIVE AllInstances(_, _, _, _)
AllInstances(db, row_order, filter_start_time, filter_end_time) ==
    IF row_order = << >> THEN << >>
    ELSE LET event_id == row_order[1]
             version_obj == get_event_with_details_by_id(db, event_id).current_version
             expanded_instances == _expand_recurring_event(
                                       Content(version_obj), filter_start_time,
                                       filter_end_time)
         IN [i \in 1 .. Len(expanded_instances) |->
                [title |-> expanded_instances[i].title,
                 instance_start_time |-> expanded_instances[i].instance_start_time,
                 instance_end_time |-> expanded_instances[i].instance_end_time,
                 location |-> expanded_instances[i].location,
                 original_event_id |-> event_id]]
            \o AllInstances(db, Tail(row_order), filter_start_time, filter_end_time)

\* The rows of the listing without a window: one per event.
RECURSIVE EventRows(_, _)
EventRows(db, row_order) ==
    IF row_order = << >> THEN << >>
    ELSE LET version_obj == get_event_with_details_by_id(db, row_order[1]).current_version
         IN <<[event_id |-> row_order[1],
               title |-> version_obj.title,
               instance_start_time |-> version_obj.start_time,
               instance_end_time |-> version_obj.end_time,
               location |-> version_obj.location,
               is_recurring |-> version_obj.is_recurring]>>
            \o EventRows(db, Tail(row_order))

\* A listing that takes its page from the candidate rows, before it expands them.
get_events_for_user_pages_rows(db, user_id, skip, limit, filter_start_time, filter_end_time, row_order) ==
    IF filter_start_time = NoTime \/ filter_end_time = NoTime
    THEN LET rows == StableSort(EventRows(db, row_order), "instance_start_time")
         IN [results |-> Slice(rows, skip, limit),
             total |-> Cardinality(BaseQuery(db, user_id))]
    ELSE LET all_instances == StableSort(
                 AllInstances(db, Slice(row_order, skip, limit), filter_start_time,
                              filter_end_time),
                 "instance_start_time")
         IN [results |-> all_instances, total |-> Len(row_order)]

\* CRUDEvent.get_events_for_user.  row_order is the order in which the
\* database returns the rows of the query where the query leaves it open: an
\* order of the candidate rows with a window, the order among rows of equal
\* start_time without one.
get_events_for_user(db, user_id, skip, limit, filter_start_time, filter_end_time, row_order) ==
    IF filter_start_time = NoTime \/ filter_end_time = NoTime
    THEN LET rows == StableSort(EventRows(db, row_order), "instance_start_time")
         IN [results |-> Slice(rows, skip, limit),
             total |-> Cardinality(BaseQuery(db, user_id))]
    ELSE LET all_instances == StableSort(
                 AllInstances(db, row_order, filter_start_time, filter_end_time),
                 "instance_start_time")
         IN [results |-> Slice(all_instances, skip, limit),
             total |-> Len(all_instances)]

\* ------------------------------------------------------------------ crud_permission
\* An add_permission that does not look for the user and the event: the
\* insert of a row for a missing one fails on its foreign key.
add_permission_no_lookup(db, event_id, user_id, role, storage) ==
    LET existing_perm == get_permission_by_event_and_user(db, event_id, user_id)
        db_permission == [event_id |-> event_id, user_id |-> user_id, role |-> role]
        added == [db EXCEPT !.perms = @ \cup {db_permission}]
    IN IF storage = "ok" /\ PermissionInsertAllowed(db, db_permission)
       THEN [db |-> Commit(db, added), raised |-> "none", detail |-> ""]
       ELSE IF \E q \in existing_perm : q.role = role
       THEN [db |-> Rollback(db, added), raised |-> "none", detail |-> ""]
       ELSE IF existing_perm # {}
       THEN [db |-> Rollback(db, added), raised |-> "ValueError",
             detail |-> "use PUT to update role"]
       ELSE [db |-> Rollback(db, added), raised |-> "error", detail |-> ""]

\* An add_permission whose insert replaces the row the user already has.
add_permission_upsert(db, event_id, user_id, role, storage) ==
    LET event == get_event_with_details_by_id(db, event_id)
        existing_perm == get_permission_by_event_and_user(db, event_id, user_id)
        db_permission == [event_id |-> event_id, user_id |-> user_id, role |-> role]
        added == [db EXCEPT !.perms = (@ \ existing_perm) \cup {db_permission}]
    IN IF user_id \notin Users
       THEN [db |-> db, raised |-> "ValueError", detail |-> "user not found"]
       ELSE IF event = NoEvent
       THEN [db |-> db, raised |-> "ValueError", detail |-> "event not found"]
       ELSE IF event.owner_id = user_id /\ role # "owner"
       THEN [db |-> db, raised |-> "ValueError", detail |-> "owner's role"]
       ELSE IF event.owner_id = user_id /\ role = "owner" /\ existing_perm # {}
       THEN [db |-> db, raised |-> "none", detail |-> ""]
       ELSE IF storage = "ok"
       THEN [db |-> Commit(db, added), raised |-> "none", detail |-> ""]
       ELSE [db |-> Rollback(db, added), raised |-> "error", detail |-> ""]

\* The end of add_permission: the row is added and committed; a commit that
\* raised is rolled back and the row looked for again.
add_permission_commit(db, db_permission, storage) ==
    LET existing_perm == get_permission_by_event_and_user(db, db_permission.event_id,
                                                          db_permission.user_id)
        added == [db EXCEPT !.perms = @ \cup {db_permission}]
    IN IF storage = "ok" /\ PermissionInsertAllowed(db, db_permission)
       THEN [db |-> Commit(db, added), raised |-> "none", detail |-> ""]
       ELSE \* the commit raised: roll back and look for the row again
            IF \E q \in existing_perm : q.role = db_permission.role
            THEN [db |-> Rollback(db, added), raised |-> "none", detail |-> ""]
            ELSE IF existing_perm # {}
            THEN [db |-> Rollback(db, added), raised |-> "ValueError",
                  detail |-> "use PUT to update role"]
            ELSE [db |-> Rollback(db, added), raised |-> "error", detail |-> ""]

\* The lookups of add_permission before it adds the row: what they raise or
\* return, "" when the row is to be added.
add_permission_lookups(db, event_id, user_id, role) ==
    LET event == get_event_with_details_by_id(db, event_id)
        existing_perm == get_permission_by_event_and_user(db, event_id, user_id)
    IN IF user_id \notin Users
       THEN [db |-> db, raised |-> "ValueError", detail |-> "user not found"]
       ELSE IF event = NoEvent
       THEN [db |-> db, raised |-> "ValueError", detail |-> "event not found"]
       ELSE IF event.owner_id = user_id /\ role # "owner"
       THEN [db |-> db, raised |-> "ValueError", detail |-> "owner's role"]
       ELSE IF event.owner_id = user_id /\ role = "owner" /\ existing_perm # {}
       THEN [db |-> db, raised |-> "none", detail |-> "exists"]
       ELSE [db |-> db, raised |-> "none", detail |-> ""]

\* CRUDPermission.add_permission.  raised: "none", "ValueError" (with the
\* subject of its message in detail) or "error" (the re-raised exception).
add_permission(db, event_id, user_id, role, storage) ==
    LET looked == add_permission_lookups(db, event_id, user_id, role)
        db_permission == [event_id |-> event_id, user_id |-> user_id, role |-> role]
    IN IF looked.raised # "none" THEN looked
       ELSE IF looked.detail = "exists" THEN [db |-> db, raised |-> "none", detail |-> ""]
       ELSE add_permission_commit(db, db_permission, storage)

\* An update_user_permission that does not look at the owner of the event.
update_user_permission_unchecked(db, event_id, user_id, new_role, storage) ==
    LET permission_to_update == get_permission_by_event_and_user(db, event_id, user_id)
        updated == [db EXCEPT !.perms =
                      {IF q \in permission_to_update
                       THEN [q EXCEPT !.role = new_role] ELSE q : q \in @}]
    IN IF permission_to_update = {}
       THEN [db |-> db, raised |-> "none", found |-> FALSE]
       ELSE IF storage = "ok"
       THEN [db |-> Commit(db, updated), raised |-> "none", found |-> TRUE]
       ELSE [db |-> Rollback(db, updated), raised |-> "error", found |-> TRUE]

\* CRUDPermission.update_user_permission.  raised "none" with found = FALSE
\* is the call returning None.
update_user_permission(db, event_id, user_id, new_role, storage) ==
    LET permission_to_update == get_permission_by_event_and_user(db, event_id, user_id)
        event == get_event_with_details_by_id(db, event_id)
        updated == [db EXCEPT !.perms =
                      {IF q \in permission_to_update
                       THEN [q EXCEPT !.role = new_role] ELSE q : q \in @}]
    IN IF permission_to_update = {}
       THEN [db |-> db, raised |-> "none", found |-> FALSE]
       ELSE IF event # NoEvent /\ event.owner_id = user_id /\ new_role # "owner"
       THEN [db |-> db, raised |-> "ValueError", found |-> TRUE]
       ELSE IF storage = "ok"
       THEN [db |-> Commit(db, updated), raised |-> "none", found |-> TRUE]
       ELSE [db |-> Rollback(db, updated), raised |-> "error", found |-> TRUE]

\* A removal that does not look at the owner of the event.
remove_user_permission_unchecked(db, event_id, user_id, storage) ==
    LET removed == [db EXCEPT !.perms =
                      {q \in @ : ~(q.event_id = event_id /\ q.user_id = user_id)}]
        rowcount == Cardinality(get_permission_by_event_and_user(db, event_id, user_id))
    IN IF storage = "ok"
       THEN [db |-> Commit(db, removed), raised |-> "none", deleted |-> rowcount > 0]
       ELSE [db |-> Rollback(db, removed), raised |-> "error", deleted |-> FALSE]

\* CRUDPermission.remove_user_permission
remove_user_permission(db, event_id, user_id, storage) ==
    LET event == get_event_with_details_by_id(db, event_id)
        removed == [db EXCEPT !.perms =
                      {q \in @ : ~(q.event_id = event_id /\ q.user_id = user_id)}]
        rowcount == Cardinality(get_permission_by_event_and_user(db, event_id, user_id))
    IN IF event # NoEvent /\ event.owner_id = user_id
       THEN [db |-> db, raised |-> "ValueError", deleted |-> FALSE]
       ELSE IF storage = "ok"
       THEN [db |-> Commit(db, removed), raised |-> "none", deleted |-> rowcount > 0]
       ELSE [db |-> Rollback(db, removed), raised |-> "error", deleted |-> FALSE]

\* ------------------------------------------------------------------ inputs
\* Request bodies of POST /events.  A field absent from the record is a field
\* the body omits.
CreatePayloads ==
    {[title |-> "a", start_time |-> 1, end_time |-> 2],
     [title |-> "a", start_time |-> 1, end_time |-> 2, description |-> "d",
      location |-> "l", is_recurring |-> TRUE, recurrence_pattern |-> "R"],
     [title |-> "a", start_time |-> 1, end_time |-> 2, is_recurring |-> TRUE],
     [title |-> "a", start_time |-> 1, end_time |-> 2,
      is_recurring |-> TRUE, recurrence_pattern |-> None],
     [title |-> "a", start_time |-> 1, end_time |-> 2, recurrence_pattern |-> "R"],
     [title |-> "a", start_time |-> 2, end_time |-> 2]}

\* Request bodies of PUT /events/{id}.  << >> is the empty body.
UpdatePayloads ==
    {<< >>,
     [title |-> "b", start_time |-> 0, end_time |-> 3],
     [end_time |-> 1],
     [end_time |-> 3, start_time |-> 3],
     [is_recurring |-> TRUE],
     [recurrence_pattern |-> "R"]}

\* The bodies FastAPI hands to the handler: those the schema accepts.
AcceptedCreatePayloads == {p \in CreatePayloads : EventCreateAccepts(p)}
AcceptedUpdatePayloads == {p \in UpdatePayloads : EventUpdateAccepts(p)}

\* Request bodies of POST /events for the listing: events before, in and after
\* the second week of January 2024, a Monday/Wednesday/Friday rule from
\* 2024-01-01T09:00Z, a daily rule whose occurrences cross midnight, and a
\* rule dateutil does not parse.
ListingPayloads ==
    {[title |-> "a", start_time |-> 170, end_time |-> 172],
     [title |-> "b", start_time |-> 160, end_time |-> 168, location |-> "l"],
     [title |-> "c", start_time |-> 336, end_time |-> 340],
     [title |-> "m", start_time |-> 9, end_time |-> 10, is_recurring |-> TRUE,
      recurrence_pattern |-> WeeklyMWF],
     [title |-> "d", start_time |-> 23, end_time |-> 25, is_recurring |-> TRUE,
      recurrence_pattern |-> Daily],
     [title |-> "x", start_time |-> 9, end_time |-> 10, is_recurring |-> TRUE,
      recurrence_pattern |-> MalformedPattern]}

\* The windows [from, to) of a listing: 168 is 2024-01-08T00:00Z, 336 is
\* 2024-01-15T00:00Z, 177 is 2024-01-08T09:00Z.
Windows == {<<168, 336>>, <<168, 177>>, <<172, 177>>, <<160, 170>>}

\* User ids a sharing request may name: the users, and one id of no user.
TargetUsers == 1 .. (NumUsers + 1)

\* ------------------------------------------------------------------ handlers
Store(db) ==
    /\ events' = db.events
    /\ versions' = db.versions
    /\ perms' = db.perms
    /\ nextEventId' = db.nextEventId
    /\ nextVersionId' = db.nextVersionId

StoreUnchanged == UNCHANGED <<events, versions, perms, nextEventId, nextVersionId>>

\* What a handler holds after its gate: the caller, the event it loaded (with
\* its current version) and, for a rollback, the target version it loaded.
Loaded(handler, user, event, target_version_obj) ==
    [handler |-> handler, user |-> user, event |-> event,
     target_version_obj |-> target_version_obj]

\* map_event_to_response_schema: the version_number of the response, 0 for None
\* (no event or no current version loaded).
map_event_to_response_schema(db_event) ==
    IF db_event = NoEvent THEN 0
    ELSE IF db_event.current_version = NoVersion THEN 0
    ELSE db_event.current_version.version_number

Response(db, status, version_number) ==
    [db |-> db, status |-> status, version_number |-> version_number]

\* The response of a handler around a crud call that returns an event.
EventResponse(out, success) ==
    LET response_data == map_event_to_response_schema(out.event) IN
    IF out.raised = "ValueError" THEN Response(out.db, HTTP_400, 0)
    ELSE IF out.raised = "error" \/ response_data = 0 THEN Response(out.db, HTTP_500, 0)
    ELSE Response(out.db, success, response_data)

\* POST /events
create_new_event(db, event_in, user, storage) ==
    LET out == create_event_with_version(db, EventCreate(event_in), user, storage)
        created == [raised |-> out.raised, db |-> out.db,
                    event |-> get_event_with_details_by_id(out.db, out.event_id)]
    IN EventResponse(created, HTTP_201)

\* PUT /events/{event_id}, from the permission check on.
update_existing_event_body(db, loaded, event_in, storage) ==
    EventResponse(update_event_with_version(db, loaded.event, event_in, loaded.user, storage),
                  HTTP_200)

\* PUT /events/{event_id}
update_existing_event(db, event_id, event_in, user, storage) ==
    LET gate == CheckPermission(db, event_id, user, {"owner", "editor"})
        loaded == Loaded("update_existing_event", user,
                         get_event_with_details_by_id(db, event_id), NoVersion)
    IN IF gate # 0 THEN Response(db, gate, 0)
       ELSE update_existing_event_body(db, loaded, event_in, storage)

\* POST /events/{event_id}/rollback/{version_id}, from the load of the target on.
rollback_event_to_a_version_endpoint_body(db, loaded, storage) ==
    EventResponse(rollback_event_to_version(db, loaded.event, loaded.target_version_obj,
                                            loaded.user, storage),
                  HTTP_200)

\* The gate of the rollback request: the permission check, then the load of the
\* target version (404 when the event has no such version).
RollbackGate(db, event_id, version_id, user) ==
    LET gate == CheckPermission(db, event_id, user, {"owner", "editor"}) IN
    IF gate # 0 THEN gate
    ELSE IF get_event_version_by_version_id(db, event_id, version_id) = NoVersion
    THEN HTTP_404
    ELSE 0

\* POST /events/{event_id}/rollback/{version_id}
rollback_event_to_a_version_endpoint(db, event_id, version_id, user, storage) ==
    LET gate == RollbackGate(db, event_id, version_id, user)
        loaded == Loaded("rollback_event_to_a_version_endpoint", user,
                         get_event_with_details_by_id(db, event_id),
                         get_event_version_by_version_id(db, event_id, version_id))
    IN IF gate # 0 THEN Response(db, gate, 0)
       ELSE rollback_event_to_a_version_endpoint_body(db, loaded, storage)

\* DELETE /events/{event_id}.  The 404 raised inside the try block for "no row
\* deleted" is caught by the block's own except clause and becomes a 500.
delete_existing_event_body(db, event_id, storage) ==
    LET out == delete_event_by_id(db, event_id, storage) IN
    Response(out.db, IF out.raised = "none" /\ out.deleted THEN HTTP_204 ELSE HTTP_500, 0)

delete_existing_event(db, event_id, user, storage) ==
    LET gate == CheckPermission(db, event_id, user, {"owner"}) IN
    IF gate # 0 THEN Response(db, gate, 0)
    ELSE delete_existing_event_body(db, event_id, storage)

\* A check that lets every user with a permission row pass, whatever the role.
_get_event_and_check_permission_any_role(db, event_id, user_id, allowed_roles) ==
    LET event == get_event_with_details_by_id(db, event_id)
        status == CheckPermission(db, event_id, user_id, RoleEnum)
    IN [status |-> status, event |-> IF status = 0 THEN event ELSE NoEvent]

\* _get_event_and_check_permission of collaboration.py: status 0 and the
\* event it loaded when it returns, else the status of the HTTPException.
_get_event_and_check_permission(db, event_id, user_id, allowed_roles) ==
    LET event == get_event_with_details_by_id(db, event_id)
        status == CheckPermission(db, event_id, user_id, allowed_roles)
    IN [status |-> status, event |-> IF status = 0 THEN event ELSE NoEvent]

\* The body of the loop of share_event_with_users for one entry after its look
\* for the user's permission: an existing permission is updated, a missing one
\* added; every exception is swallowed.
ShareEntry(db, event, existing_perm, user_id, role, storage) ==
    IF existing_perm # {}
    THEN IF event.owner_id = user_id /\ role # "owner"
         THEN db
         ELSE update_user_permission(db, event.id, user_id, role, storage).db
    ELSE add_permission(db, event.id, user_id, role, storage).db

\* What the try block of that loop body raises before its except clauses catch
\* it: "none", "HTTPException" (the owner's role), "ValueError" or "error".
ShareEntryRaised(db, event, existing_perm, user_id, role, storage) ==
    IF existing_perm # {}
    THEN IF event.owner_id = user_id /\ role # "owner"
         THEN "HTTPException"
         ELSE update_user_permission(db, event.id, user_id, role, storage).raised
    ELSE add_permission(db, event.id, user_id, role, storage).raised

\* The body of the loop of share_event_with_users for one entry.
ShareOne(db, event, user_id, role, storage) ==
    ShareEntry(db, event, get_permission_by_event_and_user(db, event.id, user_id),
               user_id, role, storage)

\* The share handler without its check of the OWNER role.
share_event_with_users_unchecked(db, event_id, current_user, target_user, role, storage) ==
    LET gate == _get_event_and_check_permission(db, event_id, current_user,
                                                {"owner", "editor"}).status
        event == get_event_with_details_by_id(db, event_id)
    IN IF gate # 0 THEN Response(db, gate, 0)
       ELSE Response(ShareOne(db, event, target_user, role, storage), HTTP_200, 0)

\* POST /events/{event_id}/share with one entry in share_request.users.
share_event_with_users(db, event_id, current_user, target_user, role, storage) ==
    LET gate == _get_event_and_check_permission(db, event_id, current_user,
                                                {"owner", "editor"}).status
        event == get_event_with_details_by_id(db, event_id)
    IN IF gate # 0 THEN Response(db, gate, 0)
       ELSE IF role = "owner" /\ event.owner_id # target_user
       THEN Response(db, HTTP_400, 0)
       ELSE Response(ShareOne(db, event, target_user, role, storage), HTTP_200, 0)

\* PUT /events/{event_id}/permissions/{user_id_to_update}
update_user_event_permission(db, event_id, current_user, user_id_to_update, role, storage) ==
    LET gate == _get_event_and_check_permission(db, event_id, current_user,
                                                {"owner", "editor"}).status
        event_details == get_event_with_details_by_id(db, event_id)
        out == update_user_permission(db, event_id, user_id_to_update, role, storage)
    IN IF gate # 0 THEN Response(db, gate, 0)
       ELSE IF role = "owner" /\ event_details.owner_id # user_id_to_update
       THEN Response(db, HTTP_400, 0)
       ELSE IF event_details.owner_id = user_id_to_update /\ role # "owner"
       THEN Response(db, HTTP_400, 0)
       ELSE IF out.raised = "ValueError" THEN Response(out.db, HTTP_400, 0)
       ELSE IF out.raised = "error" THEN Response(out.db, HTTP_500, 0)
       ELSE IF ~out.found THEN Response(out.db, HTTP_404, 0)
       ELSE Response(out.db, HTTP_200, 0)

\* DELETE /events/{event_id}/permissions/{user_id_to_remove}
remove_user_access_to_event(db, event_id, current_user, user_id_to_remove, storage) ==
    LET checked == _get_event_and_check_permission(db, event_id, current_user,
                                                   {"owner", "editor"})
        gate == checked.status
        event_details == checked.event
        out == remove_user_permission(db, event_id, user_id_to_remove, storage)
    IN IF gate # 0 THEN Response(db, gate, 0)
       ELSE IF event_details.owner_id = user_id_to_remove
       THEN Response(db, HTTP_400, 0)
       ELSE IF current_user = user_id_to_remove /\ event_details.owner_id # current_user
       THEN Response(db, HTTP_403, 0)
       ELSE IF out.raised = "ValueError" THEN Response(out.db, HTTP_400, 0)
       ELSE IF out.raised = "error" THEN Response(out.db, HTTP_500, 0)
       ELSE IF ~out.deleted THEN Response(out.db, HTTP_404, 0)
       ELSE Response(out.db, HTTP_204, 0)

\* ------------------------------------------------------------------ read handlers
\* The gate of the read handlers of events.py: existence first, then any
\* permission row of the caller.  0 means the gate passed.
ViewGate(db, event_id, user) ==
    IF get_event_with_details_by_id(db, event_id) = NoEvent THEN HTTP_404
    ELSE IF get_permission_by_event_and_user(db, event_id, user) = {} THEN HTTP_403
    ELSE 0

\* GET /events/{event_id}
get_event_by_id_endpoint(db, event_id, user) ==
    LET gate == ViewGate(db, event_id, user)
        response_data == map_event_to_response_schema(
                             get_event_with_details_by_id(db, event_id))
    IN IF gate # 0 THEN gate
       ELSE IF response_data = 0 THEN HTTP_500
       ELSE HTTP_200

\* A history handler that looks for the version before it checks the caller.
get_specific_event_version_endpoint_version_first(db, event_id, version_id, user) ==
    LET gate == ViewGate(db, event_id, user) IN
    IF get_event_version_by_version_id(db, event_id, version_id) = NoVersion
    THEN HTTP_404
    ELSE IF gate # 0 THEN gate
    ELSE HTTP_200

\* GET /events/{event_id}/history/{version_id}
get_specific_event_version_endpoint(db, event_id, version_id, user) ==
    LET gate == ViewGate(db, event_id, user) IN
    IF gate # 0 THEN gate
    ELSE IF get_event_version_by_version_id(db, event_id, version_id) = NoVersion
    THEN HTTP_404
    ELSE HTTP_200

\* The attributes of an EventVersion row as the ORM object has them.
EventVersionAttributes ==
    ContentFields \cup {"id", "event_id", "version_number", "changed_at",
                        "changed_by_user_id"}

\* The required fields of the schema EventChangeLogEntry.
EventChangeLogEntryFields ==
    {"version_id", "version_number", "changed_at", "changed_by_user_id"}

\* EventChangeLogEntry.model_validate(version_orm): every required field is
\* read from the attribute of the same name; a missing one fails the validation.
EventChangeLogEntryValidates == EventChangeLogEntryFields \subseteq EventVersionAttributes

\* GET /events/{event_id}/changelog: the entries are validated outside any try
\* block, so a failed validation is an unhandled exception (500).
get_event_changelog_endpoint(db, event_id, user) ==
    LET gate == ViewGate(db, event_id, user)
        versions_orm_list == {v \in db.versions : v.event_id = event_id}
    IN IF gate # 0 THEN gate
       ELSE IF versions_orm_list # {} /\ ~EventChangeLogEntryValidates THEN HTTP_500
       ELSE HTTP_200

\* GET /events/{event_id}/diff/{version_id1}/{version_id2}
get_event_diff_between_versions_endpoint(db, event_id, version_id1, version_id2, user) ==
    LET gate == ViewGate(db, event_id, user) IN
    IF version_id1 = version_id2 THEN HTTP_400
    ELSE IF gate # 0 THEN gate
    ELSE IF \/ get_event_version_by_version_id(db, event_id, version_id1) = NoVersion
            \/ get_event_version_by_version_id(db, event_id, version_id2) = NoVersion
    THEN HTTP_404
    ELSE HTTP_200

\* The content fields whose column is nullable: None or a string.
NullableFields == {"description", "location", "recurrence_pattern"}

\* DeepDiff(t1, t2, verbose_level=0).to_dict() of two dicts with the seven
\* content fields as keys: a field whose values have different types (None and
\* a string) is reported under type_changes with its old and new type, a field
\* whose values differ within one type under values_changed with its old and
\* new value.  A category without entries is the empty function here.
DeepDiff(t1, t2) ==
    LET typed == {f \in NullableFields : (t1[f] = None) # (t2[f] = None)}
        valued == {f \in ContentFields \ typed : t1[f] # t2[f]}
        type_name(f, value) == IF f \in NullableFields /\ value = None
                               THEN "NoneType" ELSE "str"
    IN [type_changes |-> [f \in typed |-> [old_type |-> type_name(f, t1[f]),
                                           new_type |-> type_name(f, t2[f])]],
        values_changed |-> [f \in valued |-> [old_value |-> t1[f],
                                              new_value |-> t2[f]]]]

\* A diff that is always taken from the older version to the newer one.
EventDiffResponse_oldest_first(db, event_id, version_id1, version_id2) ==
    LET version1_orm == get_event_version_by_version_id(db, event_id, version_id1)
        version2_orm == get_event_version_by_version_id(db, event_id, version_id2)
    IN IF version1_orm.version_number <= version2_orm.version_number
       THEN DeepDiff(Content(version1_orm), Content(version2_orm))
       ELSE DeepDiff(Content(version2_orm), Content(version1_orm))

\* A diff that leaves version_number among the compared fields.
EventDiffResponse_with_metadata(db, event_id, version_id1, version_id2) ==
    LET version1_orm == get_event_version_by_version_id(db, event_id, version_id1)
        version2_orm == get_event_version_by_version_id(db, event_id, version_id2)
        content == DeepDiff(Content(version1_orm), Content(version2_orm))
        numbered == IF version1_orm.version_number = version2_orm.version_number
                    THEN {} ELSE {"version_number"}
    IN [type_changes |-> content.type_changes,
        values_changed |->
            [f \in DOMAIN content.values_changed \cup numbered |->
                IF f \in numbered
                THEN [old_value |-> version1_orm.version_number,
                      new_value |-> version2_orm.version_number]
                ELSE content.values_changed[f]]]

\* The differences the diff handler returns with its 200: the metadata fields
\* are excluded, the versions are diffed in the order of the path.
EventDiffResponse(db, event_id, version_id1, version_id2) ==
    LET version1_orm == get_event_version_by_version_id(db, event_id, version_id1)
        version2_orm == get_event_version_by_version_id(db, event_id, version_id2)
    IN DeepDiff(Content(version1_orm), Content(version2_orm))

\* GET /events/{event_id}/permissions
list_event_permissions(db, event_id, current_user) ==
    LET gate == _get_event_and_check_permission(db, event_id, current_user,
                                                RoleEnum).status IN
    IF gate # 0 THEN gate ELSE HTTP_200

\* The fields schemas.EventInstance requires of the dict it is built from;
\* location is optional and a key that is no field is ignored.
EventInstanceRequired == {"event_id", "title", "instance_start_time", "instance_end_time"}

\* schemas.EventInstance(**data)
EventInstanceValidates(data) == EventInstanceRequired \subseteq DOMAIN data

\* GET /events: the window is refused when it ends before it starts; a row
\* of get_events_for_user that is no EventInstance is answered with 500.
list_events_for_user(db, current_user, skip, limit, start_time, end_time, row_order) ==
    LET out == get_events_for_user(db, current_user, skip, limit, start_time, end_time,
                                   row_order)
    IN IF start_time # NoTime /\ end_time # NoTime /\ end_time <= start_time
       THEN [status |-> HTTP_400, events |-> << >>, total |-> 0]
       ELSE IF \E i \in 1 .. Len(out.results) : ~EventInstanceValidates(out.results[i])
       THEN [status |-> HTTP_500, events |-> << >>, total |-> 0]
       ELSE [status |-> HTTP_200, events |-> out.results, total |-> out.total]

\* ------------------------------------------------------------------ actions
\* The sequences are capped: no request that would take an id beyond the cap.
WithinCaps(db) == db.nextEventId <= MaxEvents + 1 /\ db.nextVersionId <= MaxVersions + 1

CreateEvent ==
    \E user \in Users, event_in \in AcceptedCreatePayloads, storage \in StorageOutcomes :
        LET out == create_new_event(DB, event_in, user, storage) IN
        /\ nextEventId <= MaxEvents
        /\ nextVersionId <= MaxVersions
        /\ Store(out.db)
        /\ UNCHANGED inflight

UpdateEvent ==
    \E user \in Users, event_id \in EventIds, event_in \in AcceptedUpdatePayloads,
       storage \in StorageOutcomes :
        LET out == update_existing_event(DB, event_id, event_in, user, storage) IN
        /\ WithinCaps(out.db)
        /\ Store(out.db)
        /\ UNCHANGED inflight

RollbackEvent ==
    \E user \in Users, event_id \in EventIds, version_id \in VersionIds,
       storage \in StorageOutcomes :
        LET out == rollback_event_to_a_version_endpoint(DB, event_id, version_id, user,
                                                        storage) IN
        /\ WithinCaps(out.db)
        /\ Store(out.db)
        /\ UNCHANGED inflight

DeleteEvent ==
    \E user \in Users, event_id \in EventIds, storage \in StorageOutcomes :
        /\ Store(delete_existing_event(DB, event_id, user, storage).db)
        /\ UNCHANGED inflight

ShareEvent ==
    \E current_user \in Users, event_id \in EventIds, target_user \in TargetUsers,
       role \in RoleEnum, storage \in StorageOutcomes :
        /\ Store(share_event_with_users(DB, event_id, current_user, target_user, role,
                                        storage).db)
        /\ UNCHANGED inflight

UpdatePermission ==
    \E current_user \in Users, event_id \in EventIds, target_user \in TargetUsers,
       role \in RoleEnum, storage \in StorageOutcomes :
        /\ Store(update_user_event_permission(DB, event_id, current_user, target_user,
                                              role, storage).db)
        /\ UNCHANGED inflight

RemoveAccess ==
    \E current_user \in Users, event_id \in EventIds, target_user \in TargetUsers,
       storage \in StorageOutcomes :
        /\ Store(remove_user_access_to_event(DB, event_id, current_user, target_user,
                                             storage).db)
        /\ UNCHANGED inflight

\* Interleaved requests: the gate of a request puts what it loaded in flight,
\* a later step runs the rest of the handler on it.
Waiting(handler) == {l \in BagToSet(inflight) : l.handler = handler}

Enter(loaded) ==
    /\ BagCardinality(inflight) < NumRequests
    /\ inflight' = inflight (+) SetToBag({loaded})

Leave(loaded) == inflight' = inflight (-) SetToBag({loaded})

UpdateEventGate ==
    \E user \in Users, event_id \in EventIds :
        /\ CheckPermission(DB, event_id, user, {"owner", "editor"}) = 0
        /\ Enter(Loaded("update_existing_event", user,
                        get_event_with_details_by_id(DB, event_id), NoVersion))
        /\ StoreUnchanged

UpdateEventExec ==
    \E loaded \in Waiting("update_existing_event"),
       event_in \in AcceptedUpdatePayloads, storage \in StorageOutcomes :
        LET out == update_existing_event_body(DB, loaded, event_in, storage) IN
        /\ WithinCaps(out.db)
        /\ Store(out.db)
        /\ Leave(loaded)

RollbackEventGate ==
    \E user \in Users, event_id \in EventIds, version_id \in VersionIds :
        /\ RollbackGate(DB, event_id, version_id, user) = 0
        /\ Enter(Loaded("rollback_event_to_a_version_endpoint", user,
                        get_event_with_details_by_id(DB, event_id),
                        get_event_version_by_version_id(DB, event_id, version_id)))
        /\ StoreUnchanged

RollbackEventExec ==
    \E loaded \in Waiting("rollback_event_to_a_version_endpoint"),
       storage \in StorageOutcomes :
        LET out == rollback_event_to_a_version_endpoint_body(DB, loaded, storage) IN
        /\ WithinCaps(out.db)
        /\ Store(out.db)
        /\ Leave(loaded)

DeleteEventGate ==
    \E user \in Users, event_id \in EventIds :
        /\ CheckPermission(DB, event_id, user, {"owner"}) = 0
        /\ Enter(Loaded("delete_existing_event", user,
                        get_event_with_details_by_id(DB, event_id), NoVersion))
        /\ StoreUnchanged

DeleteEventExec ==
    \E loaded \in Waiting("delete_existing_event"), storage \in StorageOutcomes :
        /\ Store(delete_existing_event_body(DB, loaded.event.id, storage).db)
        /\ Leave(loaded)

\* POST /events with the one body the sharing specification creates events
\* from: the content of an event plays no part in its permissions.
CreateEventToShare ==
    \E user \in Users, storage \in StorageOutcomes :
        LET out == create_new_event(DB, [title |-> "a", start_time |-> 1, end_time |-> 2],
                                    user, storage) IN
        /\ nextEventId <= MaxEvents
        /\ nextVersionId <= MaxVersions
        /\ Store(out.db)
        /\ UNCHANGED inflight

\* POST /events with the bodies of the listing specification.
CreateListedEvent ==
    \E user \in Users, event_in \in {p \in ListingPayloads : EventCreateAccepts(p)},
       storage \in StorageOutcomes :
        LET out == create_new_event(DB, event_in, user, storage) IN
        /\ nextEventId <= MaxEvents
        /\ nextVersionId <= MaxVersions
        /\ Store(out.db)
        /\ UNCHANGED inflight

\* A call of get_events_for_user and what it returned.
Listed(user, skip, limit, filter_start_time, filter_end_time, out) ==
    [handler |-> "get_events_for_user", user |-> user, skip |-> skip, limit |-> limit,
     filter_start_time |-> filter_start_time, filter_end_time |-> filter_end_time,
     results |-> out.results, total |-> out.total]

\* The listing of a window: the latest answer replaces the one before.
ListWindow ==
    \E user \in Users, skip \in 0 .. MaxSkip, limit \in 1 .. MaxLimit, w \in Windows :
        \E row_order \in RowOrders(CandidateQuery(DB, user, w[1], w[2])) :
            /\ inflight' = SetToBag({Listed(user, skip, limit, w[1], w[2],
                                 get_events_for_user(DB, user, skip, limit, w[1], w[2],
                                                     row_order))})
            /\ StoreUnchanged

\* The listing without a window.
ListEvents ==
    \E user \in Users, skip \in 0 .. MaxSkip, limit \in 1 .. MaxLimit :
        \E row_order \in RowOrders(BaseQuery(DB, user)) :
            /\ inflight' = SetToBag({Listed(user, skip, limit, NoTime, NoTime,
                                 get_events_for_user(DB, user, skip, limit, NoTime, NoTime,
                                                     row_order))})
            /\ StoreUnchanged

\* A share request up to the point where add_permission, called for an entry
\* without a permission row, has looked up the user and the event and is
\* about to add the row.
AddPermissionLookups ==
    \E current_user \in Users, event_id \in EventIds, target_user \in TargetUsers,
       role \in RoleEnum :
        LET checked == _get_event_and_check_permission(DB, event_id, current_user,
                                                       {"owner", "editor"})
            looked == add_permission_lookups(DB, event_id, target_user, role)
        IN /\ checked.status = 0
           /\ ~(role = "owner" /\ checked.event.owner_id # target_user)
           /\ get_permission_by_event_and_user(DB, event_id, target_user) = {}
           /\ looked.raised = "none" /\ looked.detail = ""
           /\ Enter([handler |-> "add_permission",
                     db_permission |-> [event_id |-> event_id, user_id |-> target_user,
                                        role |-> role]])
           /\ StoreUnchanged

\* The rest of that add_permission: the row is added and committed.
AddPermissionCommit ==
    \E loaded \in Waiting("add_permission"), storage \in StorageOutcomes :
        /\ Store(add_permission_commit(DB, loaded.db_permission, storage).db)
        /\ Leave(loaded)

\* A call of _expand_recurring_event: its arguments, the occurrence the
\* iterator of rule.between stands at, the occurrences between has collected,
\* and the instances it returned.
Expansion(event_version_data, filter_start_time, filter_end_time, cursor, l, returned, instances) ==
    [handler |-> "_expand_recurring_event", event_version_data |-> event_version_data,
     filter_start_time |-> filter_start_time, filter_end_time |-> filter_end_time,
     cursor |-> cursor, l |-> l, returned |-> returned, instances |-> instances]

Expanding == {x \in Waiting("_expand_recurring_event") : ~x.returned}

\* The call up to the first occurrence of the rule: a version that does not
\* recur and a pattern that is no rule return at once.
ExpandStart ==
    \E e \in events, w \in Windows :
        LET event_version_data == Content(get_event_with_details_by_id(DB, e.id).current_version)
            pattern == event_version_data["recurrence_pattern"]
            iterates == /\ event_version_data["is_recurring"]
                        /\ ~Falsy(pattern)
                        /\ rrulestr_parses(pattern)
        IN /\ Expanding = {}
           /\ inflight' = SetToBag({
                  IF iterates
                  THEN Expansion(event_version_data, w[1], w[2],
                                 NextOccurrence(pattern, event_version_data["start_time"],
                                                event_version_data["start_time"] - 1),
                                 << >>, FALSE, << >>)
                  ELSE Expansion(event_version_data, w[1], w[2], StopIteration, << >>, TRUE,
                                 _expand_recurring_event(event_version_data, w[1], w[2]))})
           /\ StoreUnchanged

\* One turn of the loop of rule.between(after, before, inc=True): an
\* occurrence after `before` ends it, an occurrence from `after` on is collected.
ExpandStep ==
    \E x \in Expanding :
        /\ x.cursor # StopIteration
        /\ x.cursor <= x.filter_end_time
        /\ inflight' = SetToBag({
               Expansion(x.event_version_data, x.filter_start_time, x.filter_end_time,
                         NextOccurrence(x.event_version_data["recurrence_pattern"],
                                        x.event_version_data["start_time"], x.cursor),
                         IF x.cursor >= x.filter_start_time
                         THEN Append(x.l, x.cursor) ELSE x.l,
                         FALSE, << >>)})
        /\ StoreUnchanged

\* The end of the iteration: the loop over the collected occurrences and the
\* return of the instances.
ExpandReturn ==
    \E x \in Expanding :
        LET event_duration == x.event_version_data["end_time"]
                              - x.event_version_data["start_time"]
            kept == SelectSeq(x.l, LAMBDA t : ExpandedInstance(t, t + event_duration,
                                                               x.filter_start_time,
                                                               x.filter_end_time))
        IN /\ x.cursor = StopIteration \/ x.cursor > x.filter_end_time
           /\ inflight' = SetToBag({
                  Expansion(x.event_version_data, x.filter_start_time, x.filter_end_time,
                            x.cursor, x.l, TRUE,
                            [i \in 1 .. Len(kept) |->
                                [title |-> x.event_version_data["title"],
                                 instance_start_time |-> kept[i],
                                 instance_end_time |-> kept[i] + event_duration,
                                 location |-> x.event_version_data["location"]]])})
           /\ StoreUnchanged

\* What share_event_with_users holds for an entry of its request after the
\* look for the target user's permission.
LoadedShare(current_user, event, target_user, role, existing_perm) ==
    [handler |-> "share_event_with_users", user |-> current_user, event |-> event,
     target_user |-> target_user, role |-> role, existing_perm |-> existing_perm]

ShareEventGate ==
    \E current_user \in Users, event_id \in EventIds, target_user \in TargetUsers,
       role \in RoleEnum :
        LET checked == _get_event_and_check_permission(DB, event_id, current_user,
                                                       {"owner", "editor"}) IN
        /\ checked.status = 0
        /\ ~(role = "owner" /\ checked.event.owner_id # target_user)
        /\ Enter(LoadedShare(current_user, checked.event, target_user, role,
                             get_permission_by_event_and_user(DB, event_id, target_user)))
        /\ StoreUnchanged

ShareEventExec ==
    \E loaded \in Waiting("share_event_with_users"), storage \in StorageOutcomes :
        /\ Store(ShareEntry(DB, loaded.event, loaded.existing_perm, loaded.target_user,
                            loaded.role, storage))
        /\ Leave(loaded)

\* ------------------------------------------------------------------ specifications
Init ==
    /\ events = {}
    /\ versions = {}
    /\ perms = {}
    /\ nextEventId = 1
    /\ nextVersionId = 1
    /\ inflight = EmptyBag

Next ==
    \/ CreateEvent
    \/ UpdateEvent
    \/ RollbackEvent
    \/ DeleteEvent
    \/ ShareEvent
    \/ UpdatePermission
    \/ RemoveAccess

Spec == Init /\ [][Next]_vars

NextConcurrent ==
    \/ CreateEvent
    \/ DeleteEvent
    \/ UpdateEventGate
    \/ UpdateEventExec
    \/ RollbackEventGate
    \/ RollbackEventExec

SpecConcurrent == Init /\ [][NextConcurrent]_vars

\* Deletes interleaved with each other and with creates and updates.
NextDelete ==
    \/ CreateEvent
    \/ UpdateEvent
    \/ DeleteEventGate
    \/ DeleteEventExec

SpecDelete == Init /\ [][NextDelete]_vars

\* Share requests interleaved with each other and with creates and deletes.
NextSharing ==
    \/ CreateEventToShare
    \/ DeleteEvent
    \/ ShareEventGate
    \/ ShareEventExec

SpecSharing == Init /\ [][NextSharing]_vars

\* Listings of the events a user created.
NextListing ==
    \/ CreateListedEvent
    \/ ListWindow
    \/ ListEvents

SpecListing == Init /\ [][NextListing]_vars

\* Updates interleaved with shares, role changes and removals.
NextRevocation ==
    \/ CreateEventToShare
    \/ ShareEvent
    \/ UpdatePermission
    \/ RemoveAccess
    \/ UpdateEventGate
    \/ UpdateEventExec

SpecRevocation == Init /\ [][NextRevocation]_vars

\* Deletes interleaved with updates, rollbacks and grants.
NextCascade ==
    \/ CreateEventToShare
    \/ DeleteEvent
    \/ UpdateEventGate
    \/ UpdateEventExec
    \/ RollbackEventGate
    \/ RollbackEventExec
    \/ AddPermissionLookups
    \/ AddPermissionCommit

SpecCascade == Init /\ [][NextCascade]_vars

\* Expansions of the events' current versions, one occurrence at a time.  The
\* loop of an expansion has no await: once called it runs on.
NextExpansion ==
    \/ CreateListedEvent
    \/ ExpandStart
    \/ ExpandStep
    \/ ExpandReturn

SpecExpansion ==
    Init /\ [][NextExpansion]_vars /\ WF_vars(ExpandStep) /\ WF_vars(ExpandReturn)

\* ------------------------------------------------------------------ properties
VersionsOf(db, event_id) == {v \in db.versions : v.event_id = event_id}

VersionNumbers(db, event_id) == {v.version_number : v \in VersionsOf(db, event_id)}

CurrentVersion(db, event_id) == get_event_with_details_by_id(db, event_id).current_version

\* The payload sets no field to a value other than the version's.
NoOp(version, event_in) == \A f \in DOMAIN event_in : event_in[f] = version[f]

\* C1: every existing event has exactly one permission row with role OWNER,
\* and the user of that row is the event's owner_id, after any sequence of
\* create, share, updateRole, revoke, update and rollback requests.
C1_ExactlyOneOwner ==
    \A e \in events :
        {p \in perms : p.event_id = e.id /\ p.role = "owner"}
            = {[event_id |-> e.id, user_id |-> e.owner_id, role |-> "owner"]}

\* An updated event shared with an editor who is not its owner.
C1_Witness ==
    \E e \in events :
        /\ CurrentVersion(DB, e.id).version_number >= 2
        /\ \E p \in perms : p.event_id = e.id /\ p.user_id # e.owner_id /\ p.role = "editor"

\* C2: in every committed state every existing event has a non-null
\* current_version_id, and it references a version row of that same event.
C2_CurrentVersionOfSameEvent ==
    \A e \in events :
        /\ e.current_version_id # 0
        /\ \E v \in versions : v.id = e.current_version_id /\ v.event_id = e.id

\* An event that was repointed while another request on it is in flight.
C2_Witness ==
    \E e \in events :
        /\ CurrentVersion(DB, e.id).version_number >= 2
        /\ \E loaded \in BagToSet(inflight) : loaded.event.id = e.id

\* The version numbers of the event are 1..N, one version per number.
Contiguous(db, event_id) ==
    VersionNumbers(db, event_id) = 1 .. Cardinality(VersionsOf(db, event_id))

\* The request answered out added `added` versions to the event if it
\* succeeded, and none if it failed.
Adds(out, success, event_id, added) ==
    Cardinality(VersionsOf(out.db, event_id))
        = Cardinality(VersionsOf(DB, event_id)) + IF out.status = success THEN added ELSE 0

\* C3 as stated: the version numbers of every existing event are exactly 1..N,
\* N the number of successful create, update and rollback requests on the
\* event: the numbers are 1..N, and N grows by one with every such request
\* that succeeds and with no request that fails.
C3_Original ==
    /\ \A e \in events : Contiguous(DB, e.id)
    /\ \A user \in Users, event_in \in AcceptedCreatePayloads, storage \in StorageOutcomes :
          Adds(create_new_event(DB, event_in, user, storage), HTTP_201, nextEventId, 1)
    /\ \A loaded \in Waiting("update_existing_event"),
          event_in \in AcceptedUpdatePayloads, storage \in StorageOutcomes :
          Adds(update_existing_event_body(DB, loaded, event_in, storage), HTTP_200,
               loaded.event.id, 1)
    /\ \A loaded \in Waiting("rollback_event_to_a_version_endpoint"),
          storage \in StorageOutcomes :
          Adds(rollback_event_to_a_version_endpoint_body(DB, loaded, storage), HTTP_200,
               loaded.event.id, 1)

\* C3: the version numbers of every existing event are exactly 1..N, with no gap
\* and no duplicate, N the number of successful create, update and rollback
\* requests on the event that were not a no-op update: N grows by one with each
\* of those, and not with a successful no-op update nor with a failed request.
C3_VersionNumbersContiguous ==
    /\ \A e \in events : Contiguous(DB, e.id)
    /\ \A user \in Users, event_in \in AcceptedCreatePayloads, storage \in StorageOutcomes :
          Adds(create_new_event(DB, event_in, user, storage), HTTP_201, nextEventId, 1)
    /\ \A loaded \in Waiting("update_existing_event"),
          event_in \in AcceptedUpdatePayloads, storage \in StorageOutcomes :
          Adds(update_existing_event_body(DB, loaded, event_in, storage), HTTP_200,
               loaded.event.id,
               IF NoOp(loaded.event.current_version, event_in) THEN 0 ELSE 1)
    /\ \A loaded \in Waiting("rollback_event_to_a_version_endpoint"),
          storage \in StorageOutcomes :
          Adds(rollback_event_to_a_version_endpoint_body(DB, loaded, storage), HTTP_200,
               loaded.event.id, 1)

\* An update request in flight on an event that has several versions.
C3_Witness ==
    \E loaded \in Waiting("update_existing_event") :
        Cardinality(VersionsOf(DB, loaded.event.id)) >= 2

\* The request read a current version that is no longer the latest.
Stale(loaded) ==
    \E v \in versions :
        /\ v.event_id = loaded.event.id
        /\ v.version_number = loaded.event.current_version.version_number + 1

\* The request failed: an error status, and nothing persisted.
Failed(out) == out.status \in {HTTP_400, HTTP_500} /\ out.db = DB

C5_CreateAllOrNothing ==
    \A user \in Users, event_in \in AcceptedCreatePayloads, storage \in StorageOutcomes :
        LET out == create_new_event(DB, event_in, user, storage)
            new_events == out.db.events \ events
            new_versions == out.db.versions \ versions
            new_perms == out.db.perms \ perms
        IN /\ events \subseteq out.db.events
           /\ versions \subseteq out.db.versions
           /\ perms \subseteq out.db.perms
           /\ IF out.status = HTTP_201
              THEN /\ Cardinality(new_events) = 1
                   /\ Cardinality(new_versions) = 1
                   /\ \A e \in new_events, v \in new_versions :
                         /\ e.owner_id = user
                         /\ v.event_id = e.id
                         /\ v.version_number = 1
                         /\ v.changed_by_user_id = user
                         /\ e.current_version_id = v.id
                         /\ out.version_number = 1
                         /\ new_perms = {[event_id |-> e.id, user_id |-> user,
                                          role |-> "owner"]}
              ELSE new_events = {} /\ new_versions = {} /\ new_perms = {}

\* A second event was created beside an existing one.
C5_Witness ==
    \E e, f \in events :
        /\ e.id # f.id
        /\ \A x \in {e, f} : CurrentVersion(DB, x.id).version_number = 1

\* The constraints of a version row's content.
ValidContent(v) ==
    /\ v.end_time > v.start_time
    /\ v.is_recurring => ~Falsy(v.recurrence_pattern)
    /\ ~v.is_recurring => v.recurrence_pattern = None

\* C6: every persisted version, whatever accepted input of createEvent,
\* updateEvent or rollbackEvent produced it (a create payload with
\* is_recurring = true and no recurrence_pattern included), has
\* end_time > start_time, a non-empty recurrence_pattern if it is recurring
\* and no recurrence_pattern if it is not.
C6_VersionsValid == \A v \in versions : ValidContent(v)

\* C7: an update whose every supplied field equals the field of the current
\* version, or whose payload is empty, creates no version, leaves the current
\* pointer unchanged and returns the event with its unchanged version_number;
\* repeating it has the same effect.
C7_NoOpUpdate ==
    \A user \in Users, event_id \in EventIds, event_in \in AcceptedUpdatePayloads,
       storage \in StorageOutcomes :
        LET current == CurrentVersion(DB, event_id)
            out == update_existing_event(DB, event_id, event_in, user, storage)
        IN (/\ CheckPermission(DB, event_id, user, {"owner", "editor"}) = 0
            /\ NoOp(current, event_in))
           => /\ out.db = DB
              /\ out.status = HTTP_200
              /\ out.version_number = current.version_number
              /\ update_existing_event(out.db, event_id, event_in, user, storage) = out

\* An event was updated, and a payload that sets fields would change nothing now.
C7_Witness ==
    \E e \in events, event_in \in AcceptedUpdatePayloads :
        /\ CurrentVersion(DB, e.id).version_number >= 2
        /\ DOMAIN event_in # {}
        /\ NoOp(CurrentVersion(DB, e.id), event_in)

\* C8: a successful update that changes at least one field creates exactly one
\* version, numbered current + 1 and changed by the caller, whose content is
\* the current content overridden only by the fields the payload supplies, and
\* repoints current_version_id to it.
C8_UpdateCreatesOneVersion ==
    \A user \in Users, event_id \in EventIds, event_in \in AcceptedUpdatePayloads,
       storage \in StorageOutcomes :
        LET current == CurrentVersion(DB, event_id)
            out == update_existing_event(DB, event_id, event_in, user, storage)
        IN (/\ CheckPermission(DB, event_id, user, {"owner", "editor"}) = 0
            /\ ~NoOp(current, event_in)
            /\ out.status = HTTP_200)
           => /\ versions \subseteq out.db.versions
              /\ Cardinality(out.db.versions \ versions) = 1
              /\ \A v \in out.db.versions \ versions :
                    /\ v.event_id = event_id
                    /\ v.version_number = current.version_number + 1
                    /\ v.changed_by_user_id = user
                    /\ \A f \in ContentFields :
                          v[f] = IF f \in DOMAIN event_in THEN event_in[f] ELSE current[f]
                    /\ get_event_with_details_by_id(out.db, event_id).current_version_id
                          = v.id
                    /\ out.version_number = v.version_number

\* A version that overrides the end_time of its predecessor and carries its
\* start_time and title over.
C8_Witness ==
    \E v, w \in versions :
        /\ v.event_id = w.event_id
        /\ w.version_number = v.version_number + 1
        /\ w.end_time # v.end_time
        /\ w.start_time = v.start_time
        /\ w.title = v.title

\* C9: an update whose merged content has end_time <= start_time, or is
\* recurring without a pattern, or has a pattern without being recurring,
\* fails with a ValidationError (400), creates no version and leaves the
\* current pointer unchanged.
C9_MergedContentValidated ==
    \A user \in Users, event_id \in EventIds, event_in \in AcceptedUpdatePayloads,
       storage \in StorageOutcomes :
        LET current == CurrentVersion(DB, event_id)
            merged == [f \in ContentFields |->
                          IF f \in DOMAIN event_in THEN event_in[f] ELSE current[f]]
            out == update_existing_event(DB, event_id, event_in, user, storage)
        IN (/\ CheckPermission(DB, event_id, user, {"owner", "editor"}) = 0
            /\ ~ValidContent(merged))
           => out.status = HTTP_400 /\ out.db = DB

\* C10: a successful rollback of an event with current version N to any of
\* its versions v (the current one included) creates exactly one version,
\* numbered N + 1 and changed by the caller, whose seven content fields equal
\* those of v, and sets the current pointer to it.
C10_RollbackCopiesTarget ==
    \A user \in Users, event_id \in EventIds, version_id \in VersionIds,
       storage \in StorageOutcomes :
        LET current == CurrentVersion(DB, event_id)
            target == get_event_version_by_version_id(DB, event_id, version_id)
            out == rollback_event_to_a_version_endpoint(DB, event_id, version_id, user,
                                                        storage)
        IN (RollbackGate(DB, event_id, version_id, user) = 0 /\ out.status = HTTP_200)
           => /\ versions \subseteq out.db.versions
              /\ Cardinality(out.db.versions \ versions) = 1
              /\ \A v \in out.db.versions \ versions :
                    /\ v.event_id = event_id
                    /\ v.version_number = current.version_number + 1
                    /\ v.changed_by_user_id = user
                    /\ \A f \in ContentFields : v[f] = target[f]
                    /\ get_event_with_details_by_id(out.db, event_id).current_version_id
                          = v.id
                    /\ out.version_number = v.version_number

\* An event was rolled back to a version older than its current one, and a
\* rollback to the current version is possible.
C10_Witness ==
    \E u, v, w \in versions :
        /\ u.event_id = v.event_id /\ v.event_id = w.event_id
        /\ v.version_number = u.version_number + 1
        /\ w.version_number = v.version_number + 1
        /\ Content(w) = Content(u)
        /\ Content(v) # Content(u)
        /\ u.location # None

\* C11: the version chain is append-only.  No update, rollback, grant,
\* updateRole or revoke changes the content, the number or the author of an
\* existing version or removes it; a version row disappears only with its
\* whole event.  A rollback never points an event back to an existing row:
\* whenever the pointer of an event moves, it moves to a new row.
C11_AppendOnly ==
    [][/\ \A v \in versions :
             v \in versions' \/ \A e \in events' : e.id # v.event_id
       /\ \A e \in events, f \in events' :
             (e.id = f.id /\ f.current_version_id # e.current_version_id)
                 => \A v \in versions : v.id # f.current_version_id]_vars

\* An event shared with another user went through three versions.
C11_Witness ==
    \E e \in events :
        /\ VersionNumbers(DB, e.id) = 1 .. 3
        /\ \E p \in perms : p.event_id = e.id /\ p.user_id # e.owner_id

\* The statuses of a request that failed.
ErrorStatuses == {HTTP_400, HTTP_403, HTTP_404, HTTP_500}

\* C12: a rollback of an event to a target version that belongs to another
\* event, or that does not exist, fails with an error, creates no version for
\* either event and leaves the current pointers of both unchanged: the
\* request is stopped before its write, and the crud call itself refuses a
\* target of another event.
C12_ForeignTargetRefused ==
    /\ \A user \in Users, event_id \in EventIds, version_id \in VersionIds,
          storage \in StorageOutcomes :
          LET out == rollback_event_to_a_version_endpoint(DB, event_id, version_id, user,
                                                          storage)
          IN (\A v \in versions : ~(v.id = version_id /\ v.event_id = event_id))
             => /\ RollbackGate(DB, event_id, version_id, user) # 0
                /\ out.status \in ErrorStatuses
                /\ out.db = DB
    /\ \A user \in Users, e \in events, v \in versions, storage \in StorageOutcomes :
          LET out == rollback_event_to_version(DB, get_event_with_details_by_id(DB, e.id),
                                               v, user, storage)
          IN v.event_id # e.id => out.raised = "ValueError" /\ out.db = DB

\* Two events with their versions, and a version id that no row has yet.
C12_Witness ==
    /\ \E v, w \in versions : v.event_id # w.event_id
    /\ \E version_id \in VersionIds : \A v \in versions : v.id # version_id

PermissionsOf(db, event_id) == {p \in db.perms : p.event_id = event_id}

\* C13: after a successful delete of an event no event row, no version row and
\* no permission row with that event id exists, and the event rows, versions
\* and permissions of every other event are unchanged.
C13_DeleteCascades ==
    \A user \in Users, event_id \in EventIds, storage \in StorageOutcomes :
        LET out == delete_existing_event(DB, event_id, user, storage) IN
        out.status = HTTP_204
            => /\ \A e \in out.db.events : e.id # event_id
               /\ VersionsOf(out.db, event_id) = {}
               /\ PermissionsOf(out.db, event_id) = {}
               /\ \A other \in EventIds \ {event_id} :
                     /\ {e \in out.db.events : e.id = other} = {e \in events : e.id = other}
                     /\ VersionsOf(out.db, other) = VersionsOf(DB, other)
                     /\ PermissionsOf(out.db, other) = PermissionsOf(DB, other)

\* Two events, one shared with a second user, the other with two versions.
C13_Witness ==
    \E e, f \in events :
        /\ e.id # f.id
        /\ Cardinality(PermissionsOf(DB, e.id)) = 2
        /\ Cardinality(VersionsOf(DB, f.id)) = 2


\* The roles a user holds on an event (at most one row per pair).
RolesOf(db, event_id, user) ==
    {p.role : p \in get_permission_by_event_and_user(db, event_id, user)}

\* The writing half of C14: update and rollback change the state only for a
\* caller whose role is owner or editor, delete only for the owner, and a caller
\* whose role is outside the set is answered 403 with the state unchanged.
C14_WritesGated ==
    \A e \in events, user \in Users, storage \in StorageOutcomes :
        \A role \in RolesOf(DB, e.id, user) :
            /\ \A event_in \in UpdatePayloads :
                 LET out == update_existing_event(DB, e.id, event_in, user, storage) IN
                 /\ out.db # DB => role \in {"owner", "editor"}
                 /\ role \notin {"owner", "editor"}
                        => out.status = HTTP_403 /\ out.db = DB
            /\ \A version_id \in VersionIds :
                 LET out == rollback_event_to_a_version_endpoint(
                                DB, e.id, version_id, user, storage) IN
                 /\ out.db # DB => role \in {"owner", "editor"}
                 /\ role \notin {"owner", "editor"}
                        => out.status = HTTP_403 /\ out.db = DB
            /\ LET out == delete_existing_event(DB, e.id, user, storage) IN
                 /\ out.db # DB => role = "owner"
                 /\ role # "owner" => out.status = HTTP_403 /\ out.db = DB

\* The reading half of C14: get, history, changelog, diff and list permissions
\* succeed for a caller that holds any of the three roles on the event.
C14_ReadsSucceed ==
    \A e \in events, user \in Users :
        RolesOf(DB, e.id, user) # {} =>
            /\ get_event_by_id_endpoint(DB, e.id, user) = HTTP_200
            /\ get_event_changelog_endpoint(DB, e.id, user) = HTTP_200
            /\ list_event_permissions(DB, e.id, user) = HTTP_200
            /\ \A v \in VersionsOf(DB, e.id) :
                 get_specific_event_version_endpoint(DB, e.id, v.id, user) = HTTP_200
            /\ \A v, w \in VersionsOf(DB, e.id) :
                 v.id # w.id =>
                    get_event_diff_between_versions_endpoint(
                        DB, e.id, v.id, w.id, user) = HTTP_200

\* C14: the role gate is membership in the allowed set of the operation:
\* update and rollback change state only for owner or editor, delete only for
\* the owner, the read operations (get, history, changelog, diff, list
\* permissions) succeed for owner, editor or viewer, and a caller whose role is
\* outside the set gets 403 with the state unchanged.
C14_RoleGate == C14_WritesGated /\ C14_ReadsSucceed


\* C15: a delete of an event that does not exist when the delete runs fails
\* with 404, never with success and never with another error: both for a
\* request that finds no event at its gate and for one whose event was deleted
\* by a concurrent request between its gate and its delete statement.
C15_DeleteOfMissingNotFound ==
    /\ \A user \in Users, event_id \in EventIds, storage \in StorageOutcomes :
          get_event_with_details_by_id(DB, event_id) = NoEvent
              => LET out == delete_existing_event(DB, event_id, user, storage) IN
                 out.status = HTTP_404 /\ out.db = DB
    /\ \A loaded \in Waiting("delete_existing_event") :
          get_event_with_details_by_id(DB, loaded.event.id) = NoEvent
              => LET out == delete_existing_event_body(DB, loaded.event.id, "ok") IN
                 out.status = HTTP_404 /\ out.db = DB


\* The statuses of every gated operation for the caller on the event, over all
\* the other inputs of the operations (a diff with two distinct version ids),
\* and whether any of them changes the state.
GatedStatuses(db, event_id, user) ==
    {update_existing_event(db, event_id, event_in, user, storage).status :
        event_in \in AcceptedUpdatePayloads, storage \in StorageOutcomes}
    \cup {rollback_event_to_a_version_endpoint(db, event_id, version_id, user,
                                               storage).status :
            version_id \in VersionIds, storage \in StorageOutcomes}
    \cup {delete_existing_event(db, event_id, user, storage).status :
            storage \in StorageOutcomes}
    \cup {share_event_with_users(db, event_id, user, x[1], x[2], storage).status :
            x \in TargetUsers \X RoleEnum, storage \in StorageOutcomes}
    \cup {update_user_event_permission(db, event_id, user, x[1], x[2], storage).status :
            x \in TargetUsers \X RoleEnum, storage \in StorageOutcomes}
    \cup {remove_user_access_to_event(db, event_id, user, target_user, storage).status :
            target_user \in TargetUsers, storage \in StorageOutcomes}
    \cup {get_event_by_id_endpoint(db, event_id, user),
          get_event_changelog_endpoint(db, event_id, user),
          list_event_permissions(db, event_id, user)}
    \cup {get_specific_event_version_endpoint(db, event_id, version_id, user) :
            version_id \in VersionIds}
    \cup {get_event_diff_between_versions_endpoint(db, event_id, x[1], x[2], user) :
            x \in {y \in VersionIds \X VersionIds : y[1] # y[2]}}

\* C16: for every gated operation existence is checked before permission: a
\* caller with no permission row on the event id gets 403 when the event
\* exists and 404 when it does not; and when the gate passes it returns the
\* event it loaded.
C16_ExistenceBeforePermission ==
    /\ \A user \in Users, event_id \in EventIds :
          get_permission_by_event_and_user(DB, event_id, user) = {}
              => GatedStatuses(DB, event_id, user)
                    = {IF get_event_with_details_by_id(DB, event_id) = NoEvent
                       THEN HTTP_404 ELSE HTTP_403}
    /\ \A user \in Users, event_id \in EventIds, allowed_roles \in SUBSET RoleEnum :
          LET checked == _get_event_and_check_permission(DB, event_id, user,
                                                         allowed_roles) IN
          checked.status = 0
              => /\ checked.event.id = event_id
                 /\ \E e \in events :
                       /\ e.id = event_id
                       /\ checked.event.owner_id = e.owner_id
                       /\ checked.event.current_version_id = e.current_version_id

\* An event one user has no permission on and another has, and an event id
\* that no event has.
C16_Witness ==
    /\ \E e \in events, user, other \in Users :
          /\ get_permission_by_event_and_user(DB, e.id, user) = {}
          /\ get_permission_by_event_and_user(DB, e.id, other) # {}
    /\ \E event_id \in EventIds : get_event_with_details_by_id(DB, event_id) = NoEvent


\* The permission row of the owner of the event.
OwnerRow(e) == [event_id |-> e.id, user_id |-> e.owner_id, role |-> "owner"]

\* C17: removing the permission of the owner of an event fails for every event
\* and every caller and leaves the owner's row in place: the crud call raises
\* its ValueError, the request is answered 400 when the caller passes the role
\* gate (403 when not), neither changes a row; and a step removes an owner's
\* row only by deleting the event.
C17_OwnerNeverRevoked ==
    /\ [](\A e \in events, storage \in StorageOutcomes :
            /\ LET out == remove_user_permission(DB, e.id, e.owner_id, storage) IN
               out.raised = "ValueError" /\ ~out.deleted /\ out.db = DB
            /\ \A current_user \in Users :
                 LET out == remove_user_access_to_event(DB, e.id, current_user,
                                                        e.owner_id, storage) IN
                 /\ out.status = IF RolesOf(DB, e.id, current_user)
                                       \cap {"owner", "editor"} # {}
                                  THEN HTTP_400 ELSE HTTP_403
                 /\ out.db = DB)
    /\ [][\A e \in events :
            OwnerRow(e) \in perms
                => OwnerRow(e) \in perms' \/ \A f \in events' : f.id # e.id]_vars

\* An editor who is not the owner asks for the removal of the owner and is
\* refused by the owner check, not by the role gate.
C17_Witness ==
    \E e \in events, p \in perms :
        /\ p.event_id = e.id /\ p.user_id # e.owner_id /\ p.role = "editor"
        /\ remove_user_access_to_event(DB, e.id, p.user_id, e.owner_id, "ok").status
              = HTTP_400


C19_NoOwnerGrantToNonOwner ==
    \A e \in events, current_user \in Users, target_user \in TargetUsers,
       storage \in StorageOutcomes :
        target_user # e.owner_id =>
            LET out == share_event_with_users(DB, e.id, current_user, target_user,
                                              "owner", storage) IN
            /\ out.status = IF RolesOf(DB, e.id, current_user)
                                  \cap {"owner", "editor"} # {}
                             THEN HTTP_400 ELSE HTTP_403
            /\ out.db = DB

\* The owner of an event asks for the role OWNER for a user who has no
\* permission on the event and is refused.
C19_Witness ==
    \E e \in events, target_user \in Users :
        /\ target_user # e.owner_id
        /\ RolesOf(DB, e.id, target_user) = {}
        /\ share_event_with_users(DB, e.id, e.owner_id, target_user, "owner",
                                  "ok").status = HTTP_400


\* C20: add_permission raises its not-found ValueError when the target user
\* does not exist or the event does not exist, and creates no permission row
\* in either case; nor does the share request that made the call.
C20_GrantNotFound ==
    /\ \A event_id \in EventIds, user_id \in TargetUsers, role \in RoleEnum,
          storage \in StorageOutcomes :
          LET event == get_event_with_details_by_id(DB, event_id)
              out == add_permission(DB, event_id, user_id, role, storage)
          IN (user_id \notin Users \/ event = NoEvent)
                 => /\ out.raised = "ValueError"
                    /\ out.detail = IF user_id \notin Users THEN "user not found"
                                    ELSE "event not found"
                    /\ out.db = DB
    /\ \A loaded \in Waiting("share_event_with_users"), storage \in StorageOutcomes :
          (\/ loaded.target_user \notin Users
           \/ get_event_with_details_by_id(DB, loaded.event.id) = NoEvent)
              => ShareEntry(DB, loaded.event, loaded.existing_perm, loaded.target_user,
                            loaded.role, storage) = DB

\* Two share requests are about to call add_permission: one for an event that
\* was deleted after the request's gate, one for a user that does not exist.
C20_Witness ==
    \E loaded, other \in Waiting("share_event_with_users") :
        /\ loaded.existing_perm = {}
        /\ loaded.target_user \in Users
        /\ get_event_with_details_by_id(DB, loaded.event.id) = NoEvent
        /\ other.target_user \notin Users
        /\ get_event_with_details_by_id(DB, other.event.id) # NoEvent


\* C21: update_user_permission returns None and changes nothing when the user
\* has no permission row on the event; raises its ValueError and leaves the row
\* unchanged when the user is the owner of the event and the new role is not
\* OWNER; otherwise sets the role of exactly that row to the new role (and
\* changes nothing when the storage fails).
C21_UpdateRole ==
    \A event_id \in EventIds, user_id \in TargetUsers, new_role \in RoleEnum,
       storage \in StorageOutcomes :
        LET out == update_user_permission(DB, event_id, user_id, new_role, storage)
            row == get_permission_by_event_and_user(DB, event_id, user_id)
            event == get_event_with_details_by_id(DB, event_id)
        IN IF row = {}
           THEN out.raised = "none" /\ ~out.found /\ out.db = DB
           ELSE IF event.owner_id = user_id /\ new_role # "owner"
           THEN out.raised = "ValueError" /\ out.db = DB
           ELSE IF storage = "ok"
           THEN /\ out.raised = "none" /\ out.found
                /\ out.db = [DB EXCEPT !.perms =
                               (@ \ row) \cup {[event_id |-> event_id,
                                                user_id |-> user_id,
                                                role |-> new_role]}]
           ELSE out.raised = "error" /\ out.db = DB

\* A viewer whose role an update changes, the owner of the same event, and a
\* user without a permission row on another event.
C21_Witness ==
    /\ \E p \in perms :
          /\ p.role = "viewer"
          /\ update_user_permission(DB, p.event_id, p.user_id, "editor", "ok").db # DB
    /\ \E e \in events, user \in Users : RolesOf(DB, e.id, user) = {}


\* The permission rows of the user on the event.
RowsOf(db, event_id, user_id) ==
    {p \in db.perms : p.event_id = event_id /\ p.user_id = user_id}

\* C22: in every reachable state there is at most one permission row per
\* event and user, also when two share requests for the same user and event
\* are interleaved: the request that comes second to its insert creates no
\* second row, its add_permission returning the existing row when the role is
\* the same and failing when it is another.
C22_OnePermissionPerUser ==
    /\ \A e \in events, user \in Users : Cardinality(RowsOf(DB, e.id, user)) <= 1
    /\ \A loaded \in Waiting("share_event_with_users"), storage \in StorageOutcomes :
          LET rows == RowsOf(DB, loaded.event.id, loaded.target_user)
              out == add_permission(DB, loaded.event.id, loaded.target_user,
                                    loaded.role, storage)
              after == ShareEntry(DB, loaded.event, loaded.existing_perm,
                                  loaded.target_user, loaded.role, storage)
          IN /\ Cardinality(RowsOf(after, loaded.event.id, loaded.target_user)) <= 1
             /\ (loaded.existing_perm = {} /\ rows # {})
                    => /\ after = DB
                       /\ out.raised = IF \E p \in rows : p.role = loaded.role
                                       THEN "none" ELSE "ValueError"

\* Two share requests for the same user and event both found no row; one has
\* inserted its row, the other, asking for another role, is about to insert.
C22_Witness ==
    \E loaded \in Waiting("share_event_with_users") :
        /\ loaded.existing_perm = {}
        /\ loaded.role = "viewer"
        /\ RowsOf(DB, loaded.event.id, loaded.target_user)
              = {[event_id |-> loaded.event.id, user_id |-> loaded.target_user,
                  role |-> "editor"]}


\* C23: every failure of an operation is surfaced to its caller as an error:
\* a share request in which the grant or the update of its entry fails (target
\* user not found, attempt to change the owner's role, failed commit) does not
\* report success, and neither does a permission update or removal whose crud
\* call raises.
C23_FailuresSurfaced ==
    \A e \in events, current_user \in Users, target_user \in TargetUsers,
       role \in RoleEnum, storage \in StorageOutcomes :
        /\ LET out == share_event_with_users(DB, e.id, current_user, target_user,
                                             role, storage)
               raised == ShareEntryRaised(
                             DB, e, get_permission_by_event_and_user(DB, e.id, target_user),
                             target_user, role, storage)
           IN raised # "none" => out.status \in ErrorStatuses
        /\ update_user_permission(DB, e.id, target_user, role, storage).raised # "none"
              => update_user_event_permission(DB, e.id, current_user, target_user, role,
                                              storage).status \in ErrorStatuses
        /\ remove_user_permission(DB, e.id, target_user, storage).raised # "none"
              => remove_user_access_to_event(DB, e.id, current_user, target_user,
                                             storage).status \in ErrorStatuses


\* A diff with the old and the new side of every entry exchanged.
Swapped(differences) ==
    [type_changes |->
        [f \in DOMAIN differences.type_changes |->
            [old_type |-> differences.type_changes[f].new_type,
             new_type |-> differences.type_changes[f].old_type]],
     values_changed |->
        [f \in DOMAIN differences.values_changed |->
            [old_value |-> differences.values_changed[f].new_value,
             new_value |-> differences.values_changed[f].old_value]]]

ChangedFields(differences) ==
    DOMAIN differences.type_changes \cup DOMAIN differences.values_changed

\* C24: a diff of a version against itself is rejected with 400; for two
\* distinct versions of one event the diff from v to w and the diff from w to v
\* both succeed for a permitted caller and report the same set of changed
\* fields, the old and the new side of each field exchanged.
C24_DiffReversed ==
    /\ \A event_id \in EventIds, user \in Users, version_id \in VersionIds :
          get_event_diff_between_versions_endpoint(DB, event_id, version_id,
                                                   version_id, user) = HTTP_400
    /\ \A e \in events, user \in Users :
          RolesOf(DB, e.id, user) # {} =>
             \A v, w \in VersionsOf(DB, e.id) :
                v.id # w.id =>
                   LET forth == EventDiffResponse(DB, e.id, v.id, w.id)
                       back == EventDiffResponse(DB, e.id, w.id, v.id)
                   IN /\ get_event_diff_between_versions_endpoint(
                             DB, e.id, v.id, w.id, user) = HTTP_200
                      /\ get_event_diff_between_versions_endpoint(
                             DB, e.id, w.id, v.id, user) = HTTP_200
                      /\ ChangedFields(forth) = ChangedFields(back)
                      /\ back = Swapped(forth)

\* An event with two versions that differ in the value of a field and two
\* that differ in the type of a field's value.
C24_Witness ==
    \E e \in events :
        /\ \E v, w \in VersionsOf(DB, e.id) :
              DOMAIN EventDiffResponse(DB, e.id, v.id, w.id).values_changed # {}
        /\ \E v, w \in VersionsOf(DB, e.id) :
              DOMAIN EventDiffResponse(DB, e.id, v.id, w.id).type_changes # {}


\* The instances of the event among the items of a listing.
InstancesOf(items, event_id) ==
    SelectSeq(items, LAMBDA x : x.original_event_id = event_id)

\* The events whose current version recurs on Monday, Wednesday and Friday
\* from 2024-01-01T09:00Z to 10:00Z until 2024-01-31.
MondayWednesdayFriday(db) ==
    {e \in db.events :
        LET v == CurrentVersion(db, e.id) IN
        /\ v.start_time = 9 /\ v.end_time = 10
        /\ v.is_recurring /\ v.recurrence_pattern = WeeklyMWF}

\* C25: the expansion of an event from 2024-01-01T09:00Z to 10:00Z with a
\* weekly Monday/Wednesday/Friday rule ending 2024-01-31 over the window
\* [2024-01-08, 2024-01-15) is exactly three instances, on January 8, 10 and
\* 12 from 09:00Z to 10:00Z, and the listing of that window has exactly these
\* instances of the event: the occurrence of Monday January 15 is not one.
C25_MondayWednesdayFridayExample ==
    \A e \in MondayWednesdayFriday(DB) :
        LET v == CurrentVersion(DB, e.id)
            instances == _expand_recurring_event(Content(v), 168, 336)
        IN /\ Len(instances) = 3
           /\ \A i \in 1 .. 3 :
                 /\ instances[i].instance_start_time = <<177, 225, 273>>[i]
                 /\ instances[i].instance_end_time = <<178, 226, 274>>[i]
                 /\ instances[i].title = v.title
           /\ \A row_order \in RowOrders(CandidateQuery(DB, e.owner_id, 168, 336)) :
                 LET out == get_events_for_user(DB, e.owner_id, 0, 200, 168, 336,
                                                row_order)
                     mine == InstancesOf(out.results, e.id)
                 IN [i \in 1 .. Len(mine) |-> mine[i].instance_start_time]
                        = <<177, 225, 273>>

\* A listing of the window [2024-01-08, 2024-01-15) returned the instance of
\* Monday January 8 of such an event.
C25_Witness ==
    \E e \in MondayWednesdayFriday(DB), listed \in BagToSet(inflight) :
        /\ listed.filter_start_time = 168 /\ listed.filter_end_time = 336
        /\ listed.user = e.owner_id
        /\ \E i \in 1 .. Len(listed.results) :
              /\ listed.results[i].original_event_id = e.id
              /\ listed.results[i].instance_start_time = 177


\* The events whose current version is recurring with the malformed rule.
Malformed(db) ==
    {e \in db.events :
        LET v == CurrentVersion(db, e.id) IN
        v.is_recurring /\ v.recurrence_pattern = MalformedPattern}

\* The starts of the instances in a list.
Starts(items) == [i \in 1 .. Len(items) |-> items[i].instance_start_time]

\* C26: in a listing of a window an event whose recurrence rule is malformed
\* contributes no instance and does not make the call fail: the call returns,
\* and what it returns has every instance of each of the caller's other events.
C26_MalformedRuleIsolated ==
    \A user \in Users, w \in Windows :
        \A row_order \in RowOrders(CandidateQuery(DB, user, w[1], w[2])) :
            LET out == get_events_for_user(DB, user, 0, 200, w[1], w[2], row_order) IN
            /\ \A e \in Malformed(DB) : InstancesOf(out.results, e.id) = << >>
            /\ \A id \in BaseQuery(DB, user) :
                  id \notin {e.id : e \in Malformed(DB)}
                      => Starts(InstancesOf(out.results, id))
                            = Starts(_expand_recurring_event(
                                  Content(CurrentVersion(DB, id)), w[1], w[2]))

\* A user with an event of a malformed rule and an event that has instances
\* in the window was answered a listing of the window with those instances.
C26_Witness ==
    \E e \in Malformed(DB), listed \in BagToSet(inflight) :
        /\ listed.user = e.owner_id
        /\ listed.filter_start_time # NoTime
        /\ e.id \in CandidateQuery(DB, listed.user, listed.filter_start_time,
                                   listed.filter_end_time)
        /\ listed.total > 0
        /\ \A i \in 1 .. Len(listed.results) :
              listed.results[i].original_event_id # e.id


\* C27: in every committed state the current_version_id of each event
\* references the version of that event with the highest version_number, so no
\* read sees a new version row with the pointer still on the one before; and an
\* update or rollback whose transaction fails leaves neither a version row nor
\* a moved pointer.
C27_PointerAtHighestVersion ==
    /\ \A e \in events :
          \E v \in VersionsOf(DB, e.id) :
             /\ v.id = e.current_version_id
             /\ \A w \in VersionsOf(DB, e.id) : w.version_number <= v.version_number
    /\ \A loaded \in Waiting("update_existing_event"),
          event_in \in AcceptedUpdatePayloads :
          LET out == update_existing_event_body(DB, loaded, event_in, "raises") IN
          out.status # HTTP_200 => out.db.versions = versions /\ out.db.events = events
    /\ \A loaded \in Waiting("rollback_event_to_a_version_endpoint") :
          LET out == rollback_event_to_a_version_endpoint_body(DB, loaded, "raises") IN
          out.status # HTTP_200 => out.db.versions = versions /\ out.db.events = events

\* An event at its third version while a request that loaded an earlier
\* current version of it is still in flight.
C27_Witness ==
    \E e \in events, loaded \in BagToSet(inflight) :
        /\ CurrentVersion(DB, e.id).version_number = 3
        /\ loaded.event.id = e.id
        /\ loaded.event.current_version_id # e.current_version_id


\* C28: for a non-recurring version and a window [from, to) the expansion is
\* the one instance [start_time, end_time) of the event if start_time < to and
\* end_time > from, and no instance otherwise, an event that only touches the
\* window (end_time = from or start_time = to) included; and the listing of
\* the window has exactly that of the event.
C28_NonRecurringInstance ==
    \A e \in events, w \in Windows :
        LET v == CurrentVersion(DB, e.id)
            instances == _expand_recurring_event(Content(v), w[1], w[2])
            expected == IF v.start_time < w[2] /\ v.end_time > w[1]
                        THEN <<[title |-> v.title, instance_start_time |-> v.start_time,
                                instance_end_time |-> v.end_time,
                                location |-> v.location]>>
                        ELSE << >>
        IN ~v.is_recurring =>
              /\ instances = expected
              /\ \A row_order \in RowOrders(CandidateQuery(DB, e.owner_id, w[1], w[2])) :
                    LET mine == InstancesOf(get_events_for_user(
                                    DB, e.owner_id, 0, 200, w[1], w[2], row_order).results,
                                    e.id)
                    IN /\ Len(mine) = Len(expected)
                       /\ Starts(mine) = Starts(expected)

\* A non-recurring event that ends where one window begins, starts where
\* another ends and lies in a third, and a listing of the first of these
\* windows that its owner was answered without an instance of it.
C28_Witness ==
    \E e \in events, listed \in BagToSet(inflight) :
        LET v == CurrentVersion(DB, e.id) IN
        /\ ~v.is_recurring
        /\ \E w \in Windows : v.start_time = w[2]
        /\ \E w \in Windows : v.start_time > w[1] /\ v.end_time < w[2]
        /\ listed.user = e.owner_id
        /\ listed.filter_start_time = v.end_time
        /\ \A i \in 1 .. Len(listed.results) : listed.results[i].original_event_id # e.id


\* The events whose current version takes the recurring path of the expansion.
Recurring(db) ==
    {e \in db.events :
        LET v == CurrentVersion(db, e.id) IN
        v.is_recurring /\ ~Falsy(v.recurrence_pattern)}

\* C29: every instance returned for a recurring event lasts as long as the
\* event itself (instance_end - instance_start = end_time - start_time), starts
\* before the end of the window and ends after its start; an occurrence that
\* starts exactly at the end `to` of the window is never returned.
C29_RecurringInstancesInWindow ==
    \A e \in Recurring(DB), w \in Windows :
        LET v == CurrentVersion(DB, e.id)
            instances == _expand_recurring_event(Content(v), w[1], w[2])
        IN /\ \A i \in 1 .. Len(instances) :
                 /\ instances[i].instance_end_time - instances[i].instance_start_time
                       = v.end_time - v.start_time
                 /\ instances[i].instance_start_time < w[2]
                 /\ instances[i].instance_end_time > w[1]
           /\ \A row_order \in RowOrders(CandidateQuery(DB, e.owner_id, w[1], w[2])) :
                 LET mine == InstancesOf(get_events_for_user(
                                 DB, e.owner_id, 0, 200, w[1], w[2], row_order).results,
                                 e.id)
                 IN \A i \in 1 .. Len(mine) :
                       /\ mine[i].instance_end_time - mine[i].instance_start_time
                             = v.end_time - v.start_time
                       /\ mine[i].instance_start_time < w[2]
                       /\ mine[i].instance_start_time # w[2]
                       /\ mine[i].instance_end_time > w[1]

\* A recurring event with an occurrence that starts exactly at the end of a
\* window, a listing of that window answered to its owner without that
\* occurrence, and another window in which the event has instances.
C29_Witness ==
    \E e \in Recurring(DB), listed \in BagToSet(inflight) :
        LET v == CurrentVersion(DB, e.id) IN
        /\ listed.user = e.owner_id
        /\ listed.filter_end_time # NoTime
        /\ listed.filter_end_time \in between(v.recurrence_pattern, v.start_time,
                                              listed.filter_start_time,
                                              listed.filter_end_time)
        /\ \A i \in 1 .. Len(listed.results) :
              listed.results[i].instance_start_time # listed.filter_end_time
        /\ \E w \in Windows :
              Len(_expand_recurring_event(Content(v), w[1], w[2])) > 1


\* The pages of the listing for skip = first, first + limit, ... one after
\* the other, up to the page that reaches the total.
RECURSIVE Pages(_, _, _, _, _, _, _)
Pages(db, user, first, limit, w, row_order, total) ==
    IF first >= total THEN << >>
    ELSE get_events_for_user(db, user, first, limit, w[1], w[2], row_order).results
         \o Pages(db, user, first + limit, limit, w, row_order, total)

\* The number of instances the events of the set have in the window.
RECURSIVE InstanceCount(_, _, _)
InstanceCount(db, ids, w) ==
    IF ids = {} THEN 0
    ELSE LET id == CHOOSE x \in ids : TRUE IN
         Len(_expand_recurring_event(Content(CurrentVersion(db, id)), w[1], w[2]))
             + InstanceCount(db, ids \ {id}, w)

\* C30: in a listing of a window the page is taken after expansion and
\* sorting: total is the number of all instances of all the caller's events,
\* the page is the slice [skip, skip + limit) of the instances in ascending
\* order of instance start, and the pages for skip = 0, limit, 2*limit, ...
\* one after the other are the full sorted list, no instance lost or repeated
\* (the rows of the query in the same order for every page).
C30_PaginationAfterExpansion ==
    \A user \in Users, w \in Windows :
        \A row_order \in RowOrders(CandidateQuery(DB, user, w[1], w[2])) :
            LET full == get_events_for_user(DB, user, 0, 200, w[1], w[2],
                                            row_order).results
            IN /\ Len(full) = InstanceCount(DB, BaseQuery(DB, user), w)
               /\ \A i, j \in 1 .. Len(full) :
                     i < j => full[i].instance_start_time <= full[j].instance_start_time
               /\ \A skip \in 0 .. MaxSkip, limit \in 1 .. MaxLimit :
                     LET out == get_events_for_user(DB, user, skip, limit, w[1], w[2],
                                                    row_order)
                     IN /\ out.total = Len(full)
                        /\ out.results
                              = [i \in 1 .. (IF skip + limit <= Len(full) THEN limit
                                             ELSE IF skip <= Len(full)
                                             THEN Len(full) - skip ELSE 0)
                                    |-> full[skip + i]]
                        /\ Pages(DB, user, 0, limit, w, row_order, out.total) = full

\* A page from the middle of a listing, with instances of two events on it.
C30_Witness ==
    \E listed \in BagToSet(inflight) :
        /\ listed.filter_start_time # NoTime
        /\ listed.skip > 0
        /\ listed.total > listed.skip + listed.limit
        /\ Len(listed.results) = 2
        /\ listed.results[1].original_event_id # listed.results[2].original_event_id

\* The events on which the user has a permission row of any role.
PermittedEvents(db, user) ==
    {e.id : e \in {x \in db.events :
                     \E p \in db.perms : p.event_id = x.id /\ p.user_id = user}}

\* C31: without a time window the listing has exactly one row for each event
\* the caller has a permission row on (of any role) and none for another
\* event; each row shows the content of the event's current version; the rows
\* are in the order of the current versions' start_time; total is the number
\* of these events.
C31_UnwindowedListing ==
    \A user \in Users :
        \A row_order \in RowOrders(BaseQuery(DB, user)) :
            LET out == get_events_for_user(DB, user, 0, 200, NoTime, NoTime, row_order)
                rows == out.results
            IN /\ {rows[i].event_id : i \in 1 .. Len(rows)} = PermittedEvents(DB, user)
               /\ Len(rows) = Cardinality(PermittedEvents(DB, user))
               /\ out.total = Cardinality(PermittedEvents(DB, user))
               /\ \A i \in 1 .. Len(rows) :
                    LET current == CurrentVersion(DB, rows[i].event_id) IN
                    /\ rows[i].title = current.title
                    /\ rows[i].instance_start_time = current.start_time
                    /\ rows[i].instance_end_time = current.end_time
                    /\ rows[i].location = current.location
                    /\ rows[i].is_recurring = current.is_recurring
               /\ \A i, j \in 1 .. Len(rows) :
                    i < j => rows[i].instance_start_time <= rows[j].instance_start_time

\* A user listed on two events, on one of them not as its owner, whose
\* current versions start at different times, one of them a later version of
\* its event.
C31_Witness ==
    \E user \in Users :
        \E e1, e2 \in PermittedEvents(DB, user) :
            /\ get_event_with_details_by_id(DB, e1).owner_id # user
            /\ CurrentVersion(DB, e1).start_time # CurrentVersion(DB, e2).start_time
            /\ \/ CurrentVersion(DB, e1).version_number > 1
               \/ CurrentVersion(DB, e2).version_number > 1

\* The event an item of a listing names in the field the list response
\* requires; 0 when the item has no such field.
ItemEventId(item) == IF "event_id" \in DOMAIN item THEN item.event_id ELSE 0

\* C32: a windowed listing in which an event of the caller has an occurrence
\* in the window succeeds, and each item carries the id of its event in the
\* field event_id, as the rows of the listing without a window do.
C32_WindowedListingSucceeds ==
    \A user \in Users, w \in Windows :
        \A row_order \in RowOrders(CandidateQuery(DB, user, w[1], w[2])) :
            LET found == get_events_for_user(DB, user, 0, 200, w[1], w[2], row_order)
                out == list_events_for_user(DB, user, 0, 200, w[1], w[2], row_order)
            IN found.total > 0 =>
                /\ out.status = HTTP_200
                /\ Len(out.events) = found.total
                /\ \A i \in 1 .. Len(out.events) :
                    ItemEventId(out.events[i]) \in PermittedEvents(DB, user)

\* C33: the diff covers the content fields only.  The fields a diff of two
\* versions of an event reports are the content fields in which they differ,
\* so two versions that differ only in id, version_number, changed_at or
\* changed_by_user_id have an empty diff; the diff between a version and the
\* version a rollback to it creates is empty.
C33_DiffOfContentOnly ==
    /\ \A e \in events :
          \A v, w \in VersionsOf(DB, e.id) :
             v.id # w.id =>
                ChangedFields(EventDiffResponse(DB, e.id, v.id, w.id))
                   = {f \in ContentFields : v[f] # w[f]}
    /\ \A user \in Users, event_id \in EventIds, version_id \in VersionIds,
          storage \in StorageOutcomes :
          LET out == rollback_event_to_a_version_endpoint(DB, event_id, version_id, user,
                                                          storage)
          IN out.status = HTTP_200 =>
                \A v \in out.db.versions \ versions :
                   /\ get_event_diff_between_versions_endpoint(
                          out.db, event_id, version_id, v.id, user) = HTTP_200
                   /\ ChangedFields(EventDiffResponse(out.db, event_id, version_id, v.id))
                         = {}
                   /\ ChangedFields(EventDiffResponse(out.db, event_id, v.id, version_id))
                         = {}

\* An event was rolled back, by another user than the author of the target,
\* over a version of different content: the target and the new version differ
\* in id, version_number and changed_by_user_id only.
C33_Witness ==
    \E u, v, w \in versions :
        /\ u.event_id = v.event_id /\ v.event_id = w.event_id
        /\ v.version_number = u.version_number + 1
        /\ w.version_number = v.version_number + 1
        /\ Content(w) = Content(u)
        /\ Content(v) # Content(u)
        /\ w.changed_by_user_id # u.changed_by_user_id
        /\ ChangedFields(EventDiffResponse(DB, u.event_id, u.id, w.id)) = {}

\* The occurrences an expansion has gone through lie between the start of
\* the event and the end of the window, and it returns what
\* _expand_recurring_event computes.
C34_Bounded ==
    \A x \in Waiting("_expand_recurring_event") :
        /\ \A i \in 1 .. Len(x.l) :
              x.l[i] >= x.filter_start_time /\ x.l[i] <= x.filter_end_time
        /\ Len(x.l) <= x.filter_end_time - x.filter_start_time + 1
        /\ x.cursor # StopIteration => x.cursor <= x.filter_end_time + 7 * 24
        /\ x.returned => x.instances = _expand_recurring_event(
                             x.event_version_data, x.filter_start_time, x.filter_end_time)

\* C34: the expansion terminates for every rule and every finite window,
\* rules without end date or count and malformed rules included: an expansion
\* that was called returns, and it goes through no occurrence beyond the
\* window.
C34_ExpansionTerminates ==
    /\ [](C34_Bounded)
    /\ (Expanding # {}) ~> (Expanding = {})

\* The expansion of a rule without end returned instances after it had gone
\* through occurrences before the window.
C34_Witness ==
    \E x \in Waiting("_expand_recurring_event") :
        /\ x.returned
        /\ x.event_version_data["recurrence_pattern"] = Daily
        /\ Len(x.instances) > 1
        /\ x.cursor > x.filter_end_time

\* The user has a permission row of role OWNER or EDITOR on the event.
MayEdit(db, event_id, user) ==
    \E p \in db.perms :
        p.event_id = event_id /\ p.user_id = user /\ p.role \in {"owner", "editor"}

\* C35: under any interleaving of updates and rollbacks with removals and
\* role changes, a version is committed only while its author holds the role
\* OWNER or EDITOR on the event: a caller whose permission was removed or
\* lowered to VIEWER after the gate and before the commit gets no version.
C35_AuthorPermittedAtCommit ==
    [][\A v \in versions' \ versions :
          MayEdit([perms |-> perms'], v.event_id, v.changed_by_user_id)]_vars

\* The requests in flight whose event a delete has removed since they loaded it.
Orphaned(handler) ==
    {l \in Waiting(handler) :
        LET event_id == IF handler = "add_permission" THEN l.db_permission.event_id
                        ELSE l.event.id
        IN get_event_with_details_by_id(DB, event_id) = NoEvent}

\* No version row and no permission row references an event that does not exist.
NoDanglingRows(db) ==
    /\ \A v \in db.versions : \E e \in db.events : e.id = v.event_id
    /\ \A p \in db.perms : \E e \in db.events : e.id = p.event_id

\* What an update, a rollback and a grant whose event was deleted after they
\* loaded it answer, and whether they leave the database as it is.
OrphanedPersistNothing(update_may_succeed) ==
    /\ \A loaded \in Orphaned("update_existing_event"),
          event_in \in AcceptedUpdatePayloads, storage \in StorageOutcomes :
          LET out == update_existing_event_body(DB, loaded, event_in, storage) IN
          /\ out.db = DB
          /\ \/ out.status \in {HTTP_400, HTTP_500}
             \/ /\ update_may_succeed
                /\ NoOp(loaded.event.current_version, event_in)
                /\ out.status = HTTP_200
    /\ \A loaded \in Orphaned("rollback_event_to_a_version_endpoint"),
          storage \in StorageOutcomes :
          LET out == rollback_event_to_a_version_endpoint_body(DB, loaded, storage) IN
          out.db = DB /\ out.status \in {HTTP_400, HTTP_500}
    /\ \A loaded \in Orphaned("add_permission"), storage \in StorageOutcomes :
          LET out == add_permission_commit(DB, loaded.db_permission, storage) IN
          out.db = DB /\ out.raised # "none"

\* C36 as stated: no version or permission row ever references an event that
\* does not exist, under any interleaving of deletes with updates, rollbacks
\* and grants on the event; an update, rollback or grant that loaded the event
\* before the delete committed fails and persists nothing.
C36_Original == NoDanglingRows(DB) /\ OrphanedPersistNothing(FALSE)

\* C36, amended: no version or permission row ever references an event that
\* does not exist, under any interleaving of deletes with updates, rollbacks
\* and grants on the event; a rollback, a grant and an update that changes a
\* field fail when the event was deleted after they loaded it, an update that
\* changes nothing answers 200 with the event it loaded, and none of them
\* persists anything.
C36_NoDanglingRows == NoDanglingRows(DB) /\ OrphanedPersistNothing(TRUE)

\* An update, a rollback or a grant is in flight on an event deleted since.
C36_Witness ==
    /\ Orphaned("update_existing_event") # {}
    /\ \/ Orphaned("rollback_event_to_a_version_endpoint") # {}
       \/ Orphaned("add_permission") # {}

\* C37: the expansion of a recurring event is complete for the window: every
\* occurrence of the rule whose interval [start, start + duration) meets
\* [from, to) is returned, an occurrence that starts before `from` and ends
\* after it included.
C37_ExpansionComplete ==
    \A e \in events, w \in Windows :
        LET version == CurrentVersion(DB, e.id)
            event_duration == version.end_time - version.start_time
            expanded == _expand_recurring_event(Content(version), w[1], w[2])
        IN (version.is_recurring /\ rrulestr_parses(version.recurrence_pattern)) =>
              \A t \in (w[1] - event_duration) .. w[2] :
                 (/\ IsOccurrence(version.recurrence_pattern, version.start_time, t)
                  /\ t < w[2]
                  /\ t + event_duration > w[1])
                 => \E i \in 1 .. Len(expanded) : expanded[i].instance_start_time = t

\* The rows of the database that belong to other events than event_id.
OtherEvents(db, event_id) ==
    [events |-> {e \in db.events : e.id # event_id},
     versions |-> {v \in db.versions : v.event_id # event_id},
     perms |-> {p \in db.perms : p.event_id # event_id}]

\* The owner of each event.
Owners(db) == {<<e.id, e.owner_id>> : e \in db.events}

\* C38: version operations and permission operations do not touch each
\* other's state.  An update and a rollback leave every permission row and
\* every event's owner as they are; a grant, a role change and a removal leave
\* every version row and every current pointer as they are; and each
\* operation on one event leaves the versions, pointers and permissions of all
\* other events as they are.
C38_Frame ==
    /\ \A user \in Users, event_id \in EventIds, storage \in StorageOutcomes :
          /\ \A event_in \in AcceptedUpdatePayloads :
                LET out == update_existing_event(DB, event_id, event_in, user, storage) IN
                /\ out.db.perms = perms
                /\ Owners(out.db) = Owners(DB)
                /\ OtherEvents(out.db, event_id) = OtherEvents(DB, event_id)
          /\ \A version_id \in VersionIds :
                LET out == rollback_event_to_a_version_endpoint(DB, event_id, version_id,
                                                                user, storage) IN
                /\ out.db.perms = perms
                /\ Owners(out.db) = Owners(DB)
                /\ OtherEvents(out.db, event_id) = OtherEvents(DB, event_id)
          /\ LET out == delete_existing_event(DB, event_id, user, storage) IN
             OtherEvents(out.db, event_id) = OtherEvents(DB, event_id)
          /\ \A target_user \in TargetUsers :
                /\ \A role \in RoleEnum :
                      /\ \A out \in {share_event_with_users(DB, event_id, user, target_user,
                                                            role, storage),
                                     update_user_event_permission(DB, event_id, user,
                                                                  target_user, role,
                                                                  storage),
                                     add_permission(DB, event_id, target_user, role,
                                                    storage),
                                     update_user_permission(DB, event_id, target_user,
                                                            role, storage)} :
                            /\ out.db.versions = versions
                            /\ out.db.events = events
                            /\ OtherEvents(out.db, event_id) = OtherEvents(DB, event_id)
                /\ \A out \in {remove_user_access_to_event(DB, event_id, user, target_user,
                                                           storage),
                               remove_user_permission(DB, event_id, target_user,
                                                      storage)} :
                      /\ out.db.versions = versions
                      /\ out.db.events = events
                      /\ OtherEvents(out.db, event_id) = OtherEvents(DB, event_id)
    /\ \A user \in Users, event_in \in AcceptedCreatePayloads,
          storage \in StorageOutcomes :
          LET out == create_new_event(DB, event_in, user, storage) IN
          /\ events \subseteq out.db.events
          /\ versions \subseteq out.db.versions
          /\ perms \subseteq out.db.perms

\* Two events, one shared with a user who is not its owner and one with more
\* than one version, and an update of one of them that adds a version.
C38_Witness ==
    \E e, f \in events :
        /\ e.id # f.id
        /\ \E p \in perms : p.event_id = e.id /\ p.user_id # e.owner_id
        /\ \E event_in \in AcceptedUpdatePayloads :
              update_existing_event(DB, f.id, event_in, f.owner_id, "ok").db.versions
                 # versions
        /\ \E role \in RoleEnum :
              share_event_with_users(DB, f.id, f.owner_id, e.owner_id, role, "ok").db.perms
                 # perms

\* C39: only a caller with the role OWNER or EDITOR on an event adds, changes
\* or removes a permission row of the event.  A share, a role change and a
\* removal requested by a VIEWER or by a user without a permission row are
\* refused and change no permission; and an EDITOR who is not the owner
\* cannot remove their own permission row.
C39_OnlyEditorsChangePermissions ==
    \A current_user \in Users, event_id \in EventIds, storage \in StorageOutcomes :
        /\ RolesOf(DB, event_id, current_user) \cap {"owner", "editor"} = {} =>
              \A target_user \in TargetUsers :
                 /\ \A role \in RoleEnum :
                       /\ LET out == share_event_with_users(DB, event_id, current_user,
                                                            target_user, role, storage) IN
                          out.db = DB /\ out.status \in {HTTP_403, HTTP_404}
                       /\ LET out == update_user_event_permission(
                                         DB, event_id, current_user, target_user, role,
                                         storage) IN
                          out.db = DB /\ out.status \in {HTTP_403, HTTP_404}
                 /\ LET out == remove_user_access_to_event(DB, event_id, current_user,
                                                           target_user, storage) IN
                    out.db = DB /\ out.status \in {HTTP_403, HTTP_404}
        /\ (/\ RolesOf(DB, event_id, current_user) = {"editor"}
            /\ get_event_with_details_by_id(DB, event_id).owner_id # current_user) =>
              LET out == remove_user_access_to_event(DB, event_id, current_user,
                                                     current_user, storage) IN
              out.db = DB /\ out.status = HTTP_403

\* A user is viewer of one event and editor of another, neither of them
\* their own, and the owner's request to remove the viewer would succeed.
C39_Witness ==
    \E e, f \in events, user \in Users :
        /\ RolesOf(DB, e.id, user) = {"viewer"}
        /\ RolesOf(DB, f.id, user) = {"editor"}
        /\ e.owner_id # user /\ f.owner_id # user
        /\ remove_user_access_to_event(DB, e.id, e.owner_id, user, "ok").status = HTTP_204

\* The databases that differ from db in the versions of one event only: some
\* of its version rows are missing, the others have the given title.
VersionVariants(db, event_id) ==
    {[db EXCEPT !.versions = {v \in @ : v.event_id # event_id}
                               \cup {[v EXCEPT !.title = title] : v \in kept}] :
        kept \in SUBSET {v \in db.versions : v.event_id = event_id},
        title \in {"a", "z"}}

\* What a user receives from get, history, changelog, rollback and diff (of
\* two distinct version ids) on an event: the status of each response, and
\* whether a rollback left the database as it was.
VersionResponses(db, event_id, user) ==
    [get |-> get_event_by_id_endpoint(db, event_id, user),
     changelog |-> get_event_changelog_endpoint(db, event_id, user),
     history |-> [version_id \in VersionIds |->
                     get_specific_event_version_endpoint(db, event_id, version_id, user)],
     rollback |-> [x \in VersionIds \X StorageOutcomes |->
                     LET out == rollback_event_to_a_version_endpoint(
                                    db, event_id, x[1], user, x[2])
                     IN <<out.status, out.db = db>>],
     diff |-> [x \in {y \in VersionIds \X VersionIds : y[1] # y[2]} |->
                  get_event_diff_between_versions_endpoint(db, event_id, x[1], x[2],
                                                           user)]]

\* The responses of a caller the gate refuses in every case.
AllForbidden ==
    [get |-> HTTP_403,
     changelog |-> HTTP_403,
     history |-> [version_id \in VersionIds |-> HTTP_403],
     rollback |-> [x \in VersionIds \X StorageOutcomes |-> <<HTTP_403, TRUE>>],
     diff |-> [x \in {y \in VersionIds \X VersionIds : y[1] # y[2]} |-> HTTP_403]]

\* C40: a caller without a permission row on an existing event receives 403
\* from get, history, changelog, rollback and diff (of two distinct version
\* ids) in every case, whatever the event's versions contain and whether the
\* requested version ids exist: two states that differ in the versions of the
\* event only give the caller the same responses.
C40_ForbiddenIndependentOfVersions ==
    \A e \in events, user \in Users :
        get_permission_by_event_and_user(DB, e.id, user) = {} =>
            /\ VersionResponses(DB, e.id, user) = AllForbidden
            /\ \A other \in VersionVariants(DB, e.id) :
                  VersionResponses(other, e.id, user) = VersionResponses(DB, e.id, user)

\* An event with two versions of different content, a user without a
\* permission row on it, and a version id the event does not have.
C40_Witness ==
    \E e \in events, user \in Users :
        /\ get_permission_by_event_and_user(DB, e.id, user) = {}
        /\ \E v, w \in VersionsOf(DB, e.id) : Content(v) # Content(w)
        /\ \E version_id \in VersionIds :
              get_event_version_by_version_id(DB, e.id, version_id) = NoVersion

====
